---- MODULE Spec2Model ----
(***************************************************************************)
(* Task execution and event streaming engine of Daten.AI.                  *)
(*                                                                         *)
(* All request handlers and the background task execute_task_async are     *)
(* coroutines of one asyncio event loop: a coroutine keeps the loop from   *)
(* one real suspension point to the next.  asyncio.sleep suspends;         *)
(* `await queue.put(..)` on the unbounded asyncio.Queue does not, and the  *)
(* oracle calls and code_executor.execute are plain synchronous calls      *)
(* that hold the loop until they return.  Every action below is the code   *)
(* between two suspension points; `busy` names the execution whose         *)
(* synchronous call holds the loop.                                        *)
(***************************************************************************)
EXTENDS Integers, Sequences, FiniteSets, TLC

\* ------------------------------------------------------------------ bounds
\* Cancel requests a client sends for one execution id.
MaxCancels == 1

\* Execution ids run_task hands out (uuid4: each is used once).
ExecIds == {"e1"}

\* Clients of the stream endpoint; each opens one subscription.
Subscribers == {"s1", "s2"}

\* Chunks of output a script prints at most, and at most before it raises.
MaxChunks == 3
MaxChunksBeforeRaise == 1

\* ------------------------------------------------------- program constants
max_fix_attempts == 2

NoExec == "NoExec"

\* error = None of an execution result.
NoError == [type |-> "None", run |-> 0]

\* An event payload that carries neither an error nor a summary.
NoData == [error |-> NoError, summary |-> ""]

\* The terminal sentinel close_stream enqueues (None in the source).
Sentinel == [event |-> "None", data |-> NoData, timestamp |-> 0]

TerminalKinds == {"complete", "error"}

\* The fault message of the k-th Script Runner invocation of an execution.
Fault(k) == [type |-> "fault", run |-> k]

\* str(e) of an exception caught by the handler of execute_task_async.
Raised(what) == [type |-> what, run |-> 0]

VARIABLES
    execution_manager,  \* [active_executions, execution_metadata]
    stream_manager,     \* [active_streams, queues, completed_streams, cached_events]:
                        \* queues[e] is the content of the one asyncio.Queue made
                        \* for e, active_streams the ids whose queue is registered
    storage,            \* [datasets, results]
    pc,                 \* position of execute_task_async, per execution id
    fix_attempt,        \* local of execute_task_async
    execution_result,   \* local of execute_task_async
    summary,            \* local of execute_task_async
    busy,               \* execution whose synchronous call holds the event loop
    cancel_pending,     \* DELETE /run/{id} requests received and not yet handled
    cancel_sent,        \* DELETE /run/{id} requests sent so far
    subs,               \* per subscriber: position and locals of stream_events
    calls,              \* history: oracle calls and script runs begun, per execution
    outcomes,           \* history: how each of these calls ended, in the same order
    req,                \* history: the moment of the first cancel request
    cancelledAt,        \* history: pc at which cancel_task removed the execution
    api,                \* history: the calls made on a manager object by itself
    heap,               \* the DataFrame objects: heap[r] is the content of object r
    df,                 \* local df of execute_task_async: a reference into heap
    seen,               \* history: the content each script run found in its df
    code,               \* a script given to code_executor.execute: what it prints
                        \* and what it raises
    returned,           \* what that call of execute returned or raised
    stepwise            \* whether the terminal transitions of execute_task_async are
                        \* taken one statement at a time

vars == <<execution_manager, stream_manager, storage, pc, fix_attempt,
          execution_result, summary, busy, cancel_pending, cancel_sent, subs,
          calls, outcomes, req, cancelledAt, api, heap, df, seen, code, returned, stepwise>>

\* ------------------------------------------------------- ExecutionManager
\* now is the reading of the event loop's clock, asyncio.get_event_loop().time().
add_execution(em, e, file_id, task_id, now) ==
    [em EXCEPT !.active_executions = @ \cup {e},
               !.execution_metadata[e] =
                   [file_id |-> file_id, task_id |-> task_id, started_at |-> now]]

\* The {} get_metadata returns for an id without an entry.
NoMetadata == [file_id |-> "", task_id |-> "", started_at |-> 0]

\* remove_execution without the pop of the metadata entry.
remove_execution_keeps_metadata(em, e) ==
    [em EXCEPT !.active_executions = @ \ {e}]

remove_execution(em, e) ==
    [em EXCEPT !.active_executions = @ \ {e},
               !.execution_metadata[e] = NoMetadata]

is_active(em, e) == e \in em.active_executions

get_active_count(em) == Cardinality(em.active_executions)

get_metadata(em, e) == em.execution_metadata[e]

\* ---------------------------------------------------------- StreamManager
create_stream(sm, e) ==
    [sm EXCEPT !.active_streams = @ \cup {e}, !.queues[e] = <<>>]

get_stream(sm, e) == e \in sm.active_streams

event_data(sm, e, kind, data) ==
    [event |-> kind, data |-> data, timestamp |-> Len(sm.cached_events[e]) + 1]

\* send_event with one cache and one channel shared by all executions: the
\* event goes to every stream.
send_event_unkeyed(sm, e, kind, data) ==
    LET ev == event_data(sm, e, kind, data) IN
    [sm EXCEPT !.cached_events = [x \in DOMAIN @ |-> Append(@[x], ev)],
               !.queues = [x \in DOMAIN @ |->
                              IF get_stream(sm, x) THEN Append(@[x], ev) ELSE @[x]]]

\* send_event with the cache write moved under `if queue:`.
send_event_cache_if_live(sm, e, kind, data) ==
    LET ev == event_data(sm, e, kind, data) IN
    IF get_stream(sm, e)
    THEN [sm EXCEPT !.cached_events[e] = Append(@, ev), !.queues[e] = Append(@, ev)]
    ELSE sm

send_event(sm, e, kind, data) ==
    LET ev == event_data(sm, e, kind, data) IN
    [sm EXCEPT !.cached_events[e] = Append(@, ev),
               !.queues[e] = IF get_stream(sm, e) THEN Append(@, ev) ELSE @]

\* close_stream with an event of its own in place of the sentinel.
close_stream_with_event(sm, e) ==
    IF get_stream(sm, e)
    THEN [sm EXCEPT !.queues[e] = Append(@, event_data(sm, e, "closed", NoData)),
                    !.completed_streams = @ \cup {e}]
    ELSE sm

close_stream(sm, e) ==
    IF get_stream(sm, e)
    THEN [sm EXCEPT !.queues[e] = Append(@, Sentinel),
                    !.completed_streams = @ \cup {e}]
    ELSE sm

\* ---------------------------------------------------------------- storage
FailedResult(err) == [status |-> "failed", error |-> err, summary |-> ""]

CompletedResult(s) == [status |-> "completed", error |-> NoError, summary |-> s]

NoResult == [status |-> "none", error |-> NoError, summary |-> ""]

store_result(st, e, r) == [st EXCEPT !.results[e] = r]

\* ------------------------------------------------------------- DataFrames
\* The content of a dataset as uploaded; a script that mutates its df leaves
\* its execution id in the content.
Original == {}

\* The object storage.datasets holds for the dataset "f1".
StoredRef == 1

NoRef == 0

\* No dataset fetched and no script run yet.
NoScriptRun ==
    /\ heap = <<Original>>
    /\ df = [e \in {"e1", "e2"} |-> NoRef]
    /\ seen = [e \in {"e1", "e2"} |-> <<>>]

\* DataFrame.copy(): a new object with the content of r.  (The cells of an
\* uploaded dataset are immutable values, so the copy shares nothing that a
\* script could change.)
df_copy(h, r) == [heap |-> Append(h, h[r]), ref |-> Len(h) + 1]

\* storage.get_dataset: a copy of the stored DataFrame.
get_dataset(h) == df_copy(h, StoredRef)

\* ----------------------------------------------------------- CodeExecutor
\* Texts are sequences of tokens: a marker, a colon, a blank, a line break,
\* a JSON bracket, comma or object literal, or a word.
Newline == "\n"
Blank == " "

\* No call of code_executor.execute made by itself yet.
NoCode == [stdout |-> <<>>, raises |-> "none", message |-> ""]
NotReturned == [called |-> FALSE]
NoExecuteCall ==
    /\ code = NoCode
    /\ returned = NotReturned

\* str.split(sep)
RECURSIVE split(_, _)
split(s, sep) ==
    IF s = <<>> THEN << <<>> >>
    ELSE LET rest == split(Tail(s), sep) IN
         IF Head(s) = sep
         THEN << <<>> >> \o rest
         ELSE << <<Head(s)>> \o Head(rest) >> \o Tail(rest)

\* str.split(sep, maxsplit)
RECURSIVE split_max(_, _, _)
split_max(s, sep, maxsplit) ==
    IF maxsplit = 0 THEN <<s>>
    ELSE IF s = <<>> THEN << <<>> >>
    ELSE IF Head(s) = sep
         THEN << <<>> >> \o split_max(Tail(s), sep, maxsplit - 1)
         ELSE LET rest == split_max(Tail(s), sep, maxsplit) IN
              << <<Head(s)>> \o Head(rest) >> \o Tail(rest)

\* str.strip()
strip(s) ==
    LET kept == {i \in DOMAIN s : s[i] # Blank} IN
    IF kept = {} THEN <<>>
    ELSE SubSeq(s, CHOOSE i \in kept : \A j \in kept : i <= j,
                   CHOOSE i \in kept : \A j \in kept : j <= i)

\* str.startswith(prefix), for a prefix that is one token
startswith(s, prefix) == s # <<>> /\ s[1] = prefix

\* str.replace(old, ''): every occurrence goes
replace(s, old) == SelectSeq(s, LAMBDA t : t # old)

\* ''.join(list)
RECURSIVE join(_)
join(list) == IF list = <<>> THEN <<>> ELSE Head(list) \o join(Tail(list))

\* The JSON object literals of the texts, as json.loads decodes them: a dict
\* in key order; a number is an int, null is None.
json_object(t) ==
    CASE t = "{\"a\": 1, \"b\": \"x\"}" ->
             <<[key |-> "a", value |-> [type |-> "int", lit |-> "1"]],
               [key |-> "b", value |-> [type |-> "str", lit |-> "x"]]>>
      [] t = "{\"a\": 2, \"b\": null}" ->
             <<[key |-> "a", value |-> [type |-> "int", lit |-> "2"]],
               [key |-> "b", value |-> [type |-> "NoneType", lit |-> "null"]]>>

JsonObjects == {"{\"a\": 1, \"b\": \"x\"}", "{\"a\": 2, \"b\": null}"}

\* json.loads: a list of dicts, a dict, or JSONDecodeError raised.
json_loads(s) ==
    LET t == SelectSeq(s, LAMBDA x : x # Blank)
        n == Len(t)
        inner == SubSeq(t, 2, n - 1)
        m == Len(inner)
    IN  IF n = 1 /\ t[1] \in JsonObjects
        THEN [kind |-> "dict", value |-> json_object(t[1])]
        ELSE IF /\ n >= 2 /\ t[1] = "[" /\ t[n] = "]"
                /\ (m = 0 \/ m % 2 = 1)
                /\ \A i \in 1..m : IF i % 2 = 1 THEN inner[i] \in JsonObjects
                                                ELSE inner[i] = ","
        THEN [kind |-> "list",
              value |-> [k \in 1..((m + 1) \div 2) |-> json_object(inner[2 * k - 1])]]
        ELSE [kind |-> "JSONDecodeError", value |-> <<>>]

\* str(value)
str(v) == IF v.type = "NoneType" THEN "None" ELSE v.lit

\* list(record.keys())
keys(record) == [i \in DOMAIN record |-> record[i].key]

\* str(record.get(h, ''))
str_get(record, h) ==
    IF \E i \in DOMAIN record : record[i].key = h
    THEN str(record[CHOOSE i \in DOMAIN record : record[i].key = h].value)
    ELSE ""

\* The texts of the model that float() accepts.
Numerals == {"120", "5", "1", "2"}

\* A float() that accepts no text.
float_never(s) == [ValueError |-> TRUE]

\* float(text): the number, or ValueError
float(s) ==
    LET t == strip(s) IN
    IF Len(t) = 1 /\ t[1] \in Numerals
    THEN [float |-> t[1] \o ".0"]
    ELSE [ValueError |-> TRUE]

\* A block that ends where it begins.
table_end_at_once(lines, i) == i

\* The index of the first line from i on that, stripped, starts with
\* TABLE_END; one past the last line when there is none.
RECURSIVE table_end(_, _)
table_end(lines, i) ==
    IF i > Len(lines) \/ startswith(strip(lines[i]), "TABLE_END")
    THEN i
    ELSE table_end(lines, i + 1)

\* The body of the `if line.startswith('TABLE_START:')` branch after the
\* inner loop: the artifacts with the block's table, if it yields one.
parse_table(artifacts, table_name, table_data) ==
    LET table_records == json_loads(join(table_data)) IN
    IF table_records.kind = "list" /\ table_records.value # <<>>
    THEN LET headers == keys(table_records.value[1])
             rows == [r \in DOMAIN table_records.value |->
                        [c \in DOMAIN headers |->
                            str_get(table_records.value[r], headers[c])]]
         IN  [artifacts EXCEPT !.tables =
                 Append(@, [type |-> "table", name |-> table_name,
                            data |-> <<headers>> \o rows])]
    ELSE artifacts

\* The `elif line.startswith('PLOT_BASE64:')` branch.
parse_plot(artifacts, line) ==
    [artifacts EXCEPT !.plots =
        Append(@, [type |-> "plot",
                   name |-> "plot_" \o ToString(Len(artifacts.plots) + 1),
                   format |-> "png_base64",
                   data |-> replace(line, "PLOT_BASE64:")])]

\* The branch with a Metrics artifact of its own for every line.
parse_metric_per_line(artifacts, line) ==
    LET parts == split_max(replace(line, "METRIC:"), ":", 2) IN
    IF Len(parts) >= 2
    THEN [artifacts EXCEPT !.metrics =
             Append(@, [type |-> "metrics",
                        items |-> <<[name |-> parts[1],
                                     value |-> IF "float" \in DOMAIN float(parts[2])
                                               THEN float(parts[2])
                                               ELSE [str |-> parts[2]]]>>])]
    ELSE artifacts

\* The `elif line.startswith('METRIC:')` branch.
parse_metric(artifacts, line) ==
    LET parts == split_max(replace(line, "METRIC:"), ":", 2) IN
    IF Len(parts) >= 2
    THEN LET metric_name == parts[1]
             converted == float(parts[2])
             metric_value == IF "float" \in DOMAIN converted
                             THEN converted
                             ELSE [str |-> parts[2]]
             started == IF artifacts.metrics = <<>>
                        THEN <<[type |-> "metrics", items |-> <<>>]>>
                        ELSE artifacts.metrics
         IN  [artifacts EXCEPT !.metrics =
                 <<[started[1] EXCEPT !.items =
                       Append(@, [name |-> metric_name, value |-> metric_value])]>>]
    ELSE artifacts

\* The while loop of _parse_output from line i on.
RECURSIVE parse_lines(_, _, _)
parse_lines(lines, i, artifacts) ==
    IF i > Len(lines) THEN artifacts
    ELSE LET line == strip(lines[i]) IN
         IF startswith(line, "TABLE_START:")
         THEN LET j == table_end(lines, i + 1) IN
              parse_lines(lines, j + 1,
                          parse_table(artifacts, replace(line, "TABLE_START:"),
                                      SubSeq(lines, i + 1, j - 1)))
         ELSE IF startswith(line, "PLOT_BASE64:")
         THEN parse_lines(lines, i + 1, parse_plot(artifacts, line))
         ELSE IF startswith(line, "METRIC:")
         THEN parse_lines(lines, i + 1, parse_metric(artifacts, line))
         ELSE parse_lines(lines, i + 1, artifacts)

\* The dict both execute and _parse_output start from.
EmptyArtifacts == [tables |-> <<>>, plots |-> <<>>, metrics |-> <<>>]

\* The list with the plots ahead of the tables.
result_artifacts_plots_first(artifacts) ==
    artifacts.plots \o artifacts.tables \o artifacts.metrics

\* The list _parse_output returns.
result_artifacts(artifacts) ==
    artifacts.tables \o artifacts.plots \o artifacts.metrics

_parse_output(output) ==
    result_artifacts(parse_lines(split(output, Newline), 1, EmptyArtifacts))

None == "None"

\* What execute does with a script that prints c.stdout and then raises
\* c.raises with message c.message (or raises nothing): the record it
\* returns, or the exception that leaves it.
CodeExecutor_execute(c) ==
    IF c.raises = "none"
    THEN [called |-> TRUE, raised |-> "none",
          result |-> [artifacts |-> [list |-> _parse_output(c.stdout)],
                      error |-> None, stdout |-> c.stdout]]
    ELSE IF c.raises = "NameError"
    THEN [called |-> TRUE, raised |-> "none",
          result |-> [artifacts |-> [dict |-> EmptyArtifacts],
                      error |-> "Variable not defined: " \o c.message
                                \o ". Check that all variables (like plot_base64) are properly defined before use.",
                      stdout |-> c.stdout]]
    ELSE IF c.raises = "ValueError"
    THEN [called |-> TRUE, raised |-> "none",
          result |-> [artifacts |-> [dict |-> EmptyArtifacts],
                      error |-> c.raises \o ": " \o c.message,
                      stdout |-> c.stdout]]
    ELSE [called |-> TRUE, raised |-> c.raises]

\* ------------------------------------------------------------------- Init
\* startedAt and closedAtAttach are history: the orchestrator's position when
\* stream_events copied the cache, and whether the stream was marked completed
\* when the endpoint was called.
NoSub == [spc |-> "idle", exec |-> NoExec, recv |-> <<>>, startedAt |-> "none",
          closedAtAttach |-> FALSE]

NoReq == [at |-> "none", calls |-> 0, cached |-> 0]

Init ==
    /\ execution_manager = [active_executions |-> {},
                            execution_metadata |-> [e \in ExecIds |-> NoMetadata]]
    /\ stream_manager = [active_streams |-> {},
                         queues |-> [e \in ExecIds |-> <<>>],
                         completed_streams |-> {},
                         cached_events |-> [e \in ExecIds |-> <<>>]]
    /\ storage = [datasets |-> {"f1"}, results |-> [e \in ExecIds |-> NoResult]]
    /\ pc = [e \in ExecIds |-> "idle"]
    /\ fix_attempt = [e \in ExecIds |-> 0]
    /\ execution_result = [e \in ExecIds |-> [error |-> NoError, status |-> "unset"]]
    /\ summary = [e \in ExecIds |-> ""]
    /\ busy = NoExec
    /\ cancel_pending = [e \in ExecIds |-> 0]
    /\ cancel_sent = [e \in ExecIds |-> 0]
    /\ subs = [s \in Subscribers |-> NoSub]
    /\ calls = [e \in ExecIds |-> <<>>]
    /\ outcomes = [e \in ExecIds |-> <<>>]
    /\ req = [e \in ExecIds |-> NoReq]
    /\ cancelledAt = [e \in ExecIds |-> "none"]
    /\ api = <<>>
    /\ NoScriptRun
    /\ NoExecuteCall
    /\ stepwise = FALSE

\* -------------------------------------------------------------- event loop
\* The loop is free for a coroutine resuming from a sleep, or for a new
\* request, when no synchronous call holds it.  A cancel request that has
\* arrived is handled as soon as the loop is free: its handler is ready at
\* once, while every sleep of the orchestrator lasts 0.1 s or more.
LoopFree == busy = NoExec /\ \A e \in DOMAIN cancel_pending : cancel_pending[e] = 0

\* The event loop's clock is monotonic; it is read as one tick per call made
\* on the registry.
Now == Len(api) + 1

\* ------------------------------------------------------------ Orchestrator
NumCalls(e, what) == Cardinality({i \in DOMAIN calls[e] : calls[e][i] = what})

ErrorData(err) == [error |-> err, summary |-> ""]

EnvUnchanged ==
    UNCHANGED <<cancel_pending, cancel_sent, subs, req, cancelledAt, api, heap, df, seen,
                code, returned, stepwise>>

\* POST /run: the dataset must exist; the stream is created before the
\* background task is queued.
run_task(e) ==
    /\ LoopFree
    /\ pc[e] = "idle"
    /\ UNCHANGED outcomes
    /\ IF "f1" \in storage.datasets
       THEN /\ stream_manager' = create_stream(stream_manager, e)
            /\ pc' = [pc EXCEPT ![e] = "queued"]
       ELSE /\ pc' = [pc EXCEPT ![e] = "rejected"]
            /\ UNCHANGED stream_manager
    /\ UNCHANGED <<execution_manager, storage, fix_attempt, execution_result,
                   summary, busy, calls>>
    /\ EnvUnchanged

\* The background task starts: register, first checkpoint, `planning`, sleep.
StartExec(e) ==
    /\ LoopFree
    /\ pc[e] = "queued"
    /\ UNCHANGED outcomes
    /\ LET em == add_execution(execution_manager, e, "f1", "t1", Now) IN
       IF ~is_active(em, e)
       THEN /\ execution_manager' = remove_execution(em, e)
            /\ pc' = [pc EXCEPT ![e] = "done"]
            /\ UNCHANGED stream_manager
       ELSE /\ execution_manager' = em
            /\ stream_manager' = send_event(stream_manager, e, "planning", NoData)
            /\ pc' = [pc EXCEPT ![e] = "sleep_planning"]
    /\ UNCHANGED <<storage, fix_attempt, execution_result, summary, busy, calls>>
    /\ EnvUnchanged

\* A checkpoint that finds the execution removed: close the stream, return,
\* and the finally clause removes the execution once more.
Cancelled(e) ==
    /\ stream_manager' = close_stream(stream_manager, e)
    /\ execution_manager' = remove_execution(execution_manager, e)
    /\ pc' = [pc EXCEPT ![e] = "done"]
    /\ busy' = NoExec
    /\ UNCHANGED <<storage, fix_attempt, execution_result, summary, calls>>

\* except Exception: publish `error`, store the failed result, sleep.  Taken
\* one statement at a time, the step ends after the publish.
ExceptHandler(e, err) ==
    /\ stream_manager' = send_event(stream_manager, e, "error", ErrorData(err))
    /\ IF stepwise
       THEN /\ pc' = [pc EXCEPT ![e] = "store_failed"]
            /\ busy' = e
            /\ UNCHANGED storage
       ELSE /\ storage' = store_result(storage, e, FailedResult(err))
            /\ pc' = [pc EXCEPT ![e] = "sleep_except"]
            /\ busy' = NoExec
    /\ UNCHANGED <<execution_manager, fix_attempt, execution_result, summary>>

\* A BaseException (SystemExit raised by the script) passes both
\* `except Exception` clauses: only the finally clause runs.
FinallyOnly(e) ==
    /\ execution_manager' = remove_execution(execution_manager, e)
    /\ pc' = [pc EXCEPT ![e] = "done"]
    /\ busy' = NoExec
    /\ UNCHANGED <<stream_manager, storage, fix_attempt, execution_result, summary, calls>>

\* After the sleep that follows `planning`: checkpoint, then the oracle's
\* generate_execution_plan is called synchronously.
AfterPlanningSleep(e) ==
    /\ LoopFree
    /\ pc[e] = "sleep_planning"
    /\ UNCHANGED outcomes
    /\ IF ~is_active(execution_manager, e)
       THEN Cancelled(e)
       ELSE /\ pc' = [pc EXCEPT ![e] = "in_oracle_plan"]
            /\ busy' = e
            /\ calls' = [calls EXCEPT ![e] = Append(@, "plan")]
            /\ UNCHANGED <<execution_manager, stream_manager, storage, fix_attempt,
                           execution_result, summary>>
    /\ EnvUnchanged

\* generate_execution_plan returns or raises; on return: checkpoint,
\* `code_generation`, sleep.
PlanReturn(e, outcome) ==
    /\ busy = e
    /\ pc[e] = "in_oracle_plan"
    /\ outcomes' = [outcomes EXCEPT ![e] = Append(@, outcome)]
    /\ IF outcome = "raise"
       THEN ExceptHandler(e, Raised("exc_plan")) /\ UNCHANGED calls
       ELSE IF ~is_active(execution_manager, e)
       THEN Cancelled(e)
       ELSE /\ stream_manager' = send_event(stream_manager, e, "code_generation", NoData)
            /\ summary' = [summary EXCEPT ![e] = "draft"]
            /\ pc' = [pc EXCEPT ![e] = "sleep_codegen"]
            /\ busy' = NoExec
            /\ UNCHANGED <<execution_manager, storage, fix_attempt, execution_result, calls>>
    /\ EnvUnchanged

\* After the sleep that follows `code_generation`: checkpoint, `execution`, sleep.
AfterCodegenSleep(e) ==
    /\ LoopFree
    /\ pc[e] = "sleep_codegen"
    /\ UNCHANGED outcomes
    /\ IF ~is_active(execution_manager, e)
       THEN Cancelled(e)
       ELSE /\ stream_manager' = send_event(stream_manager, e, "execution", NoData)
            /\ pc' = [pc EXCEPT ![e] = "sleep_exec"]
            /\ UNCHANGED <<execution_manager, storage, fix_attempt, execution_result,
                           summary, busy, calls>>
    /\ EnvUnchanged

\* After the sleep that follows `execution`: fetch the dataset and call
\* code_executor.execute synchronously.  With the dataset gone df is None
\* and execute raises at df.copy(), outside its own try.
AfterExecSleep(e) ==
    /\ LoopFree
    /\ pc[e] = "sleep_exec"
    /\ outcomes' = IF "f1" \notin storage.datasets
                   THEN [outcomes EXCEPT ![e] = Append(@, "raise")]
                   ELSE outcomes
    /\ calls' = [calls EXCEPT ![e] = Append(@, "run")]
    /\ IF "f1" \notin storage.datasets
       THEN ExceptHandler(e, Raised("exc_exec"))
       ELSE /\ pc' = [pc EXCEPT ![e] = "in_script"]
            /\ busy' = e
            /\ UNCHANGED <<execution_manager, stream_manager, storage, fix_attempt,
                           execution_result, summary>>
    /\ EnvUnchanged

\* The failed run without its return: after `error` the summary oracle is
\* called all the same.
PostLoopNoReturn(e, er) ==
    /\ pc' = [pc EXCEPT ![e] = "in_oracle_summary"]
    /\ calls' = [calls EXCEPT ![e] = Append(@, "summarize")]
    /\ IF er.error # NoError
       THEN /\ stream_manager' =
                  send_event(stream_manager, e, "error", ErrorData(er.error))
            /\ storage' = store_result(storage, e, FailedResult(er.error))
       ELSE UNCHANGED <<stream_manager, storage>>
    /\ UNCHANGED <<execution_manager, fix_attempt, busy>>

\* After the auto-fix loop: a result still faulted publishes `error`, stores
\* the failed result, closes the stream and returns; otherwise the summary
\* oracle is called synchronously.
PostLoop(e, er) ==
    IF er.error # NoError
    THEN IF stepwise
         THEN /\ stream_manager' =
                    send_event(stream_manager, e, "error", ErrorData(er.error))
              /\ pc' = [pc EXCEPT ![e] = "store_failed_return"]
              /\ busy' = e
              /\ UNCHANGED <<storage, execution_manager, fix_attempt, calls>>
         ELSE /\ stream_manager' =
                    close_stream(send_event(stream_manager, e, "error", ErrorData(er.error)), e)
              /\ storage' = store_result(storage, e, FailedResult(er.error))
              /\ execution_manager' = remove_execution(execution_manager, e)
              /\ pc' = [pc EXCEPT ![e] = "done"]
              /\ busy' = NoExec
              /\ UNCHANGED <<fix_attempt, calls>>
    ELSE /\ pc' = [pc EXCEPT ![e] = "in_oracle_summary"]
         /\ calls' = [calls EXCEPT ![e] = Append(@, "summarize")]
         /\ UNCHANGED <<execution_manager, stream_manager, storage, fix_attempt, busy>>

\* The loop head with its bound test off by one (`<=` for `<`).
FixLoopOffByOne(e, er) ==
    IF er.error # NoError /\ fix_attempt[e] <= max_fix_attempts
    THEN IF ~is_active(execution_manager, e)
         THEN /\ stream_manager' = close_stream(stream_manager, e)
              /\ execution_manager' = remove_execution(execution_manager, e)
              /\ pc' = [pc EXCEPT ![e] = "done"]
              /\ busy' = NoExec
              /\ UNCHANGED <<storage, fix_attempt, calls>>
         ELSE /\ fix_attempt' = [fix_attempt EXCEPT ![e] = @ + 1]
              /\ stream_manager' = send_event(stream_manager, e, "execution", NoData)
              /\ pc' = [pc EXCEPT ![e] = "in_oracle_fix"]
              /\ calls' = [calls EXCEPT ![e] = Append(@, "repair")]
              /\ UNCHANGED <<execution_manager, storage, busy>>
    ELSE PostLoop(e, er)

\* The head of `while execution_result['error'] and fix_attempt < max_fix_attempts`:
\* checkpoint, count the attempt, publish `execution`, call the repair oracle.
FixLoop(e, er) ==
    IF er.error # NoError /\ fix_attempt[e] < max_fix_attempts
    THEN IF ~is_active(execution_manager, e)
         THEN /\ stream_manager' = close_stream(stream_manager, e)
              /\ execution_manager' = remove_execution(execution_manager, e)
              /\ pc' = [pc EXCEPT ![e] = "done"]
              /\ busy' = NoExec
              /\ UNCHANGED <<storage, fix_attempt, calls>>
         ELSE /\ fix_attempt' = [fix_attempt EXCEPT ![e] = @ + 1]
              /\ stream_manager' = send_event(stream_manager, e, "execution", NoData)
              /\ pc' = [pc EXCEPT ![e] = "in_oracle_fix"]
              /\ calls' = [calls EXCEPT ![e] = Append(@, "repair")]
              /\ UNCHANGED <<execution_manager, storage, busy>>
    ELSE PostLoop(e, er)

\* What code_executor.execute returns for an outcome of exec(code).
execute(e, outcome) ==
    IF outcome = "fault"
    THEN [error |-> Fault(NumCalls(e, "run")), status |-> "failed"]
    ELSE [error |-> NoError, status |-> "completed"]

\* The first code_executor.execute returns (ok or a captured fault) or the
\* script raises SystemExit; on return: checkpoint, then the auto-fix loop.
ScriptReturn(e, outcome) ==
    /\ busy = e
    /\ pc[e] = "in_script"
    /\ outcomes' = [outcomes EXCEPT ![e] = Append(@, outcome)]
    /\ IF outcome = "exit"
       THEN FinallyOnly(e)
       ELSE LET er == execute(e, outcome) IN
            /\ execution_result' = [execution_result EXCEPT ![e] = er]
            /\ UNCHANGED summary
            /\ IF ~is_active(execution_manager, e)
               THEN /\ stream_manager' = close_stream(stream_manager, e)
                    /\ execution_manager' = remove_execution(execution_manager, e)
                    /\ pc' = [pc EXCEPT ![e] = "done"]
                    /\ busy' = NoExec
                    /\ UNCHANGED <<storage, fix_attempt, calls>>
               ELSE FixLoop(e, er)
    /\ EnvUnchanged

\* The handler of a failed repair with `continue` for `break`: the loop goes
\* on to its next attempt.
FixReturnContinue(e, outcome) ==
    /\ busy = e
    /\ pc[e] = "in_oracle_fix"
    /\ outcomes' = [outcomes EXCEPT ![e] = Append(@, outcome)]
    /\ IF outcome = "raise"
       THEN FixLoop(e, execution_result[e])
       ELSE /\ pc' = [pc EXCEPT ![e] = "in_script_fix"]
            /\ calls' = [calls EXCEPT ![e] = Append(@, "run")]
            /\ UNCHANGED <<execution_manager, stream_manager, storage, fix_attempt, busy>>
    /\ UNCHANGED <<execution_result, summary>>
    /\ EnvUnchanged

\* The repair oracle returns the fixed code, which is executed at once, or
\* raises, which leaves the loop with the last execution result.
FixReturn(e, outcome) ==
    /\ busy = e
    /\ pc[e] = "in_oracle_fix"
    /\ outcomes' = [outcomes EXCEPT ![e] = Append(@, outcome)]
    /\ IF outcome = "raise"
       THEN PostLoop(e, execution_result[e])
       ELSE /\ pc' = [pc EXCEPT ![e] = "in_script_fix"]
            /\ calls' = [calls EXCEPT ![e] = Append(@, "run")]
            /\ UNCHANGED <<execution_manager, stream_manager, storage, fix_attempt, busy>>
    /\ UNCHANGED <<execution_result, summary>>
    /\ EnvUnchanged

\* The execute of an auto-fix attempt returns, or the script raises SystemExit.
FixScriptReturn(e, outcome) ==
    /\ busy = e
    /\ pc[e] = "in_script_fix"
    /\ outcomes' = [outcomes EXCEPT ![e] = Append(@, outcome)]
    /\ IF outcome = "exit"
       THEN FinallyOnly(e)
       ELSE LET er == execute(e, outcome) IN
            /\ execution_result' = [execution_result EXCEPT ![e] = er]
            /\ UNCHANGED summary
            /\ FixLoop(e, er)
    /\ EnvUnchanged

\* The summary step without its own try/except: a raising oracle reaches the
\* exception handler of execute_task_async.
SummaryReturnNoFallback(e, outcome) ==
    /\ busy = e
    /\ pc[e] = "in_oracle_summary"
    /\ outcomes' = [outcomes EXCEPT ![e] = Append(@, outcome)]
    /\ IF outcome = "raise"
       THEN ExceptHandler(e, Raised("exc_summary")) /\ UNCHANGED calls
       ELSE LET sum == IF outcome = "ok" THEN "ai" ELSE summary[e]
                sm1 == send_event(stream_manager, e, "summary",
                                  [error |-> NoError, summary |-> sum])
            IN /\ summary' = [summary EXCEPT ![e] = sum]
               /\ storage' = store_result(storage, e, CompletedResult(sum))
               /\ stream_manager' =
                     send_event(sm1, e, "complete", [error |-> NoError, summary |-> sum])
               /\ pc' = [pc EXCEPT ![e] = "sleep_complete"]
               /\ busy' = NoExec
               /\ UNCHANGED <<execution_manager, fix_attempt, execution_result, calls>>
    /\ EnvUnchanged

\* The summary oracle returns a usable text, a text too short to use, or
\* raises; then `summary`, the stored result, `complete`, sleep.  Taken one
\* statement at a time, the step ends after `summary`.
SummaryReturn(e, outcome) ==
    /\ busy = e
    /\ pc[e] = "in_oracle_summary"
    /\ outcomes' = [outcomes EXCEPT ![e] = Append(@, outcome)]
    /\ LET sum == IF outcome = "ok" THEN "ai" ELSE summary[e]
           sm1 == send_event(stream_manager, e, "summary", [error |-> NoError, summary |-> sum])
       IN /\ summary' = [summary EXCEPT ![e] = sum]
          /\ IF stepwise
             THEN /\ stream_manager' = sm1
                  /\ pc' = [pc EXCEPT ![e] = "store_completed"]
                  /\ busy' = e
                  /\ UNCHANGED storage
             ELSE /\ storage' = store_result(storage, e, CompletedResult(sum))
                  /\ stream_manager' =
                        send_event(sm1, e, "complete", [error |-> NoError, summary |-> sum])
                  /\ pc' = [pc EXCEPT ![e] = "sleep_complete"]
                  /\ busy' = NoExec
    /\ UNCHANGED <<execution_manager, fix_attempt, execution_result, calls>>
    /\ EnvUnchanged

\* The end of execute_task_async without the removal of its finally clause.
AfterFinalSleepNoRemove(e) ==
    /\ LoopFree
    /\ pc[e] \in {"sleep_complete", "sleep_except"}
    /\ UNCHANGED outcomes
    /\ stream_manager' = close_stream(stream_manager, e)
    /\ pc' = [pc EXCEPT ![e] = "done"]
    /\ UNCHANGED <<execution_manager, storage, fix_attempt, execution_result,
                   summary, busy, calls>>
    /\ EnvUnchanged

\* After the sleep that follows `complete`, or the one in the exception
\* handler: close the stream; the finally clause removes the execution.
AfterFinalSleep(e) ==
    /\ LoopFree
    /\ pc[e] \in {"sleep_complete", "sleep_except"}
    /\ UNCHANGED outcomes
    /\ stream_manager' = close_stream(stream_manager, e)
    /\ execution_manager' = remove_execution(execution_manager, e)
    /\ pc' = [pc EXCEPT ![e] = "done"]
    /\ UNCHANGED <<storage, fix_attempt, execution_result, summary, busy, calls>>
    /\ EnvUnchanged

\* The same statements without the store_result call.
StoreFailedSkipped(e) ==
    /\ stepwise
    /\ busy = e
    /\ pc[e] \in {"store_failed", "store_failed_return"}
    /\ IF pc[e] = "store_failed"
       THEN /\ pc' = [pc EXCEPT ![e] = "sleep_except"]
            /\ UNCHANGED <<execution_manager, stream_manager>>
       ELSE /\ stream_manager' = close_stream(stream_manager, e)
            /\ execution_manager' = remove_execution(execution_manager, e)
            /\ pc' = [pc EXCEPT ![e] = "done"]
    /\ busy' = NoExec
    /\ UNCHANGED <<storage, fix_attempt, execution_result, summary, calls, outcomes>>
    /\ EnvUnchanged

\* The statements that follow a published `error`, taken by themselves: the
\* exception handler stores the failed result and sleeps; the failed run
\* stores it, closes the stream and returns through the finally clause.
StoreFailed(e) ==
    /\ stepwise
    /\ busy = e
    /\ pc[e] \in {"store_failed", "store_failed_return"}
    /\ LET cached == stream_manager.cached_events[e]
           err == cached[Len(cached)].data.error
       IN  storage' = store_result(storage, e, FailedResult(err))
    /\ IF pc[e] = "store_failed"
       THEN /\ pc' = [pc EXCEPT ![e] = "sleep_except"]
            /\ UNCHANGED <<execution_manager, stream_manager>>
       ELSE /\ stream_manager' = close_stream(stream_manager, e)
            /\ execution_manager' = remove_execution(execution_manager, e)
            /\ pc' = [pc EXCEPT ![e] = "done"]
    /\ busy' = NoExec
    /\ UNCHANGED <<fix_attempt, execution_result, summary, calls, outcomes>>
    /\ EnvUnchanged

\* The statement left out: nothing is stored.
StoreCompletedSkipped(e) ==
    /\ stepwise
    /\ busy = e
    /\ pc[e] = "store_completed"
    /\ pc' = [pc EXCEPT ![e] = "send_complete"]
    /\ UNCHANGED <<execution_manager, stream_manager, storage, fix_attempt,
                   execution_result, summary, busy, calls, outcomes>>
    /\ EnvUnchanged

\* storage.store_result(task_execution_id, final_result), taken by itself.
StoreCompleted(e) ==
    /\ stepwise
    /\ busy = e
    /\ pc[e] = "store_completed"
    /\ storage' = store_result(storage, e, CompletedResult(summary[e]))
    /\ pc' = [pc EXCEPT ![e] = "send_complete"]
    /\ UNCHANGED <<execution_manager, stream_manager, fix_attempt, execution_result,
                   summary, busy, calls, outcomes>>
    /\ EnvUnchanged

\* send_event(task_execution_id, "complete", final_result), taken by itself;
\* then the sleep.
SendComplete(e) ==
    /\ stepwise
    /\ busy = e
    /\ pc[e] = "send_complete"
    /\ stream_manager' = send_event(stream_manager, e, "complete",
                                    [error |-> NoError, summary |-> summary[e]])
    /\ pc' = [pc EXCEPT ![e] = "sleep_complete"]
    /\ busy' = NoExec
    /\ UNCHANGED <<execution_manager, storage, fix_attempt, execution_result,
                   summary, calls, outcomes>>
    /\ EnvUnchanged

\* ------------------------------------------------------------- environment
OrchUnchanged ==
    UNCHANGED <<pc, fix_attempt, execution_result, summary, busy, calls, outcomes, api,
                heap, df, seen, code, returned, stepwise>>

\* A client sends DELETE /run/{id}; the request waits for the event loop.
CancelRequest(e) ==
    /\ cancel_sent[e] < MaxCancels
    /\ cancel_sent' = [cancel_sent EXCEPT ![e] = @ + 1]
    /\ cancel_pending' = [cancel_pending EXCEPT ![e] = @ + 1]
    /\ req' = IF req[e].at = "none"
              THEN [req EXCEPT ![e] = [at |-> pc[e], calls |-> Len(calls[e]),
                                       cached |-> Len(stream_manager.cached_events[e])]]
              ELSE req
    /\ UNCHANGED <<execution_manager, stream_manager, storage, subs, cancelledAt>>
    /\ OrchUnchanged

\* DELETE /run/{id}: a live execution is removed and its stream closed.
cancel_task(e) ==
    /\ busy = NoExec
    /\ cancel_pending[e] > 0
    /\ cancel_pending' = [cancel_pending EXCEPT ![e] = @ - 1]
    /\ IF is_active(execution_manager, e)
       THEN /\ execution_manager' = remove_execution(execution_manager, e)
            /\ stream_manager' = close_stream(stream_manager, e)
            /\ cancelledAt' = [cancelledAt EXCEPT ![e] = pc[e]]
       ELSE UNCHANGED <<execution_manager, stream_manager, cancelledAt>>
    /\ UNCHANGED <<storage, cancel_sent, subs, req>>
    /\ OrchUnchanged

\* An upload (store_dataset) cleans up the data older than one hour, here
\* the dataset of the executions.
cleanup_old_data ==
    /\ LoopFree
    /\ "f1" \in storage.datasets
    /\ storage' = [storage EXCEPT !.datasets = @ \ {"f1"}]
    /\ UNCHANGED <<execution_manager, stream_manager, cancel_pending, cancel_sent,
                   subs, req, cancelledAt>>
    /\ OrchUnchanged

\* -------------------------------------------------------------- subscribers
SubUnchanged ==
    UNCHANGED <<execution_manager, storage, cancel_pending, cancel_sent, req, cancelledAt>>

Delivered(sub, ev, src) == [sub EXCEPT !.recv = Append(@, [ev |-> ev, src |-> src])]

\* GET /stream/{id}: 404 unless the id has a live channel or is completed.
stream_task_events(s, e) ==
    /\ LoopFree
    /\ subs[s].spc = "idle"
    /\ subs' = [subs EXCEPT ![s] =
                  IF ~get_stream(stream_manager, e) /\ e \notin stream_manager.completed_streams
                  THEN [@ EXCEPT !.spc = "not_found", !.exec = e]
                  ELSE [@ EXCEPT !.spc = "attached", !.exec = e,
                                 !.closedAtAttach = e \in stream_manager.completed_streams]]
    /\ UNCHANGED stream_manager
    /\ SubUnchanged /\ OrchUnchanged

\* After the cached replay: with no live channel the generator returns.
EnterLive(sub) ==
    IF get_stream(stream_manager, sub.exec)
    THEN [sub EXCEPT !.spc = "live"]
    ELSE [sub EXCEPT !.spc = "ended_no_channel"]

\* The replay loop `for event_data in cached: yield ...` as deliveries.
RECURSIVE Replay(_, _)
Replay(recv, cached) ==
    IF cached = <<>> THEN recv
    ELSE Replay(Append(recv, [ev |-> Head(cached), src |-> "cache"]), Tail(cached))

\* stream_events starts: copy the cache and yield the copied events; with an
\* empty cache go on to the live channel at once.  The yields and sleeps of
\* the replay loop touch only the generator's own copy, so they are taken
\* together; the time they take is the step from "replay" to ReplayDone.
StreamStart(s) ==
    /\ LoopFree
    /\ subs[s].spc = "attached"
    /\ LET cached == stream_manager.cached_events[subs[s].exec]
           sub == [subs[s] EXCEPT !.startedAt = pc[subs[s].exec]]
       IN subs' = [subs EXCEPT ![s] =
                     IF cached = <<>>
                     THEN EnterLive(sub)
                     ELSE [sub EXCEPT !.spc = "replay", !.recv = Replay(<<>>, cached)]]
    /\ UNCHANGED stream_manager
    /\ SubUnchanged /\ OrchUnchanged

\* After the sleep that follows the last replayed event: the live channel.
ReplayDone(s) ==
    /\ LoopFree
    /\ subs[s].spc = "replay"
    /\ subs' = [subs EXCEPT ![s] = EnterLive(@)]
    /\ UNCHANGED stream_manager
    /\ SubUnchanged /\ OrchUnchanged

\* The finally clause of stream_events.
stream_cleanup(sm, e) == [sm EXCEPT !.active_streams = @ \ {e}]

\* queue.get() returns: the sentinel ends the generator, an event is yielded.
LiveGet(s) ==
    /\ LoopFree
    /\ subs[s].spc = "live"
    /\ LET e == subs[s].exec
           q == stream_manager.queues[e]
       IN /\ q # <<>>
          /\ IF Head(q) = Sentinel
             THEN /\ stream_manager' =
                        stream_cleanup([stream_manager EXCEPT !.queues[e] = Tail(q)], e)
                  /\ subs' = [subs EXCEPT ![s].spc = "ended_sentinel"]
             ELSE /\ stream_manager' = [stream_manager EXCEPT !.queues[e] = Tail(q)]
                  /\ subs' = [subs EXCEPT ![s] = Delivered(@, Head(q), "live")]
    /\ SubUnchanged /\ OrchUnchanged

\* The client disconnects: the generator is cancelled where it is suspended;
\* only the live loop is inside the try whose finally removes the channel.
Detach(s) ==
    /\ LoopFree
    /\ subs[s].spc \in {"replay", "live"}
    /\ stream_manager' = IF subs[s].spc = "live"
                         THEN stream_cleanup(stream_manager, subs[s].exec)
                         ELSE stream_manager
    /\ subs' = [subs EXCEPT ![s].spc = "detached"]
    /\ SubUnchanged /\ OrchUnchanged

\* ------------------------------------------------------------ specification
ScriptOutcomes == {"ok", "fault", "exit"}

OracleOutcomes == {"ok", "raise"}

SummaryOutcomes == {"ok", "short", "raise"}

OrchNext(e) ==
    \/ StartExec(e)
    \/ AfterPlanningSleep(e)
    \/ \E o \in OracleOutcomes : PlanReturn(e, o)
    \/ AfterCodegenSleep(e)
    \/ AfterExecSleep(e)
    \/ \E o \in ScriptOutcomes : ScriptReturn(e, o)
    \/ \E o \in OracleOutcomes : FixReturn(e, o)
    \/ \E o \in ScriptOutcomes : FixScriptReturn(e, o)
    \/ \E o \in SummaryOutcomes : SummaryReturn(e, o)
    \/ AfterFinalSleep(e)

SubNext(s) ==
    \/ \E e \in ExecIds : stream_task_events(s, e)
    \/ StreamStart(s)
    \/ ReplayDone(s)
    \/ LiveGet(s)
    \/ Detach(s)

Next ==
    \/ \E e \in ExecIds : run_task(e) \/ OrchNext(e) \/ CancelRequest(e) \/ cancel_task(e)
    \/ cleanup_old_data
    \/ SubNext("s1")

Spec == Init /\ [][Next]_vars

\* The same program with the terminal transitions of execute_task_async
\* taken one statement at a time: the states between two statements of a
\* stretch that does not suspend are states of the program too, which no
\* other coroutine gets to see.
InitStatements ==
    /\ execution_manager = [active_executions |-> {},
                            execution_metadata |-> [e \in ExecIds |-> NoMetadata]]
    /\ stream_manager = [active_streams |-> {},
                         queues |-> [e \in ExecIds |-> <<>>],
                         completed_streams |-> {},
                         cached_events |-> [e \in ExecIds |-> <<>>]]
    /\ storage = [datasets |-> {"f1"}, results |-> [e \in ExecIds |-> NoResult]]
    /\ pc = [e \in ExecIds |-> "idle"]
    /\ fix_attempt = [e \in ExecIds |-> 0]
    /\ execution_result = [e \in ExecIds |-> [error |-> NoError, status |-> "unset"]]
    /\ summary = [e \in ExecIds |-> ""]
    /\ busy = NoExec
    /\ cancel_pending = [e \in ExecIds |-> 0]
    /\ cancel_sent = [e \in ExecIds |-> 0]
    /\ subs = [s \in Subscribers |-> NoSub]
    /\ calls = [e \in ExecIds |-> <<>>]
    /\ outcomes = [e \in ExecIds |-> <<>>]
    /\ req = [e \in ExecIds |-> NoReq]
    /\ cancelledAt = [e \in ExecIds |-> "none"]
    /\ api = <<>>
    /\ NoScriptRun
    /\ NoExecuteCall
    /\ stepwise = TRUE

NextStatements ==
    \/ Next
    \/ \E e \in ExecIds : StoreFailed(e) \/ StoreCompleted(e) \/ SendComplete(e)

SpecStatements == InitStatements /\ [][NextStatements]_vars

\* An upload (store_dataset) more than an hour after an execution stored its
\* result: _cleanup_old_data drops the result, and the dataset uploaded
\* before it.
cleanup_old_results(e) ==
    /\ LoopFree
    /\ pc[e] = "done"
    /\ storage.results[e] # NoResult
    /\ storage' = [datasets |-> storage.datasets \ {"f1"},
                   results |-> [storage.results EXCEPT ![e] = NoResult]]
    /\ UNCHANGED <<execution_manager, stream_manager, cancel_pending, cancel_sent,
                   subs, req, cancelledAt>>
    /\ OrchUnchanged

\* The program over more than an hour.
NextRetention ==
    \/ NextStatements
    \/ \E e \in ExecIds : cleanup_old_results(e)

SpecRetention == InitStatements /\ [][NextRetention]_vars

\* Several clients subscribed to the same execution, no cancellation; the
\* clients being interchangeable, "s1" is the one that connects first.
NextSubs ==
    \/ \E e \in ExecIds : run_task(e) \/ OrchNext(e)
    \/ SubNext("s1")
    \/ subs["s1"].spc # "idle" /\ SubNext("s2")

SpecSubs == Init /\ [][NextSubs]_vars

\* Two executions started on the same dataset "f1", with cancellation and
\* without subscribers.
ConcurrentIds == {"e1", "e2"}

InitPair ==
    /\ execution_manager = [active_executions |-> {},
                            execution_metadata |-> [e \in ConcurrentIds |-> NoMetadata]]
    /\ stream_manager = [active_streams |-> {},
                         queues |-> [e \in ConcurrentIds |-> <<>>],
                         completed_streams |-> {},
                         cached_events |-> [e \in ConcurrentIds |-> <<>>]]
    /\ storage = [datasets |-> {"f1"}, results |-> [e \in ConcurrentIds |-> NoResult]]
    /\ pc = [e \in ConcurrentIds |-> "idle"]
    /\ fix_attempt = [e \in ConcurrentIds |-> 0]
    /\ execution_result = [e \in ConcurrentIds |-> [error |-> NoError, status |-> "unset"]]
    /\ summary = [e \in ConcurrentIds |-> ""]
    /\ busy = NoExec
    /\ cancel_pending = [e \in ConcurrentIds |-> 0]
    /\ cancel_sent = [e \in ConcurrentIds |-> 0]
    /\ subs = [s \in Subscribers |-> NoSub]
    /\ calls = [e \in ConcurrentIds |-> <<>>]
    /\ outcomes = [e \in ConcurrentIds |-> <<>>]
    /\ req = [e \in ConcurrentIds |-> NoReq]
    /\ cancelledAt = [e \in ConcurrentIds |-> "none"]
    /\ api = <<>>
    /\ NoScriptRun
    /\ NoExecuteCall
    /\ stepwise = FALSE

NextPair ==
    \E e \in ConcurrentIds : run_task(e) \/ OrchNext(e) \/ CancelRequest(e) \/ cancel_task(e)

SpecPair == InitPair /\ [][NextPair]_vars

\* ------------------------------------------- the dataset of the script runs
\* What execute_task_async and code_executor.execute do with the dataset, for
\* two executions on "f1": the fetch before the first run, and the runs (the
\* first and those of the auto-fix attempts), each of which is one
\* synchronous call.

\* The df global bound to the caller's DataFrame itself.
exec_globals_df_shared(h, r) == [heap |-> h, ref |-> r]

\* The df global a script gets: `'df': df.copy()`.
exec_globals_df(h, r) == df_copy(h, r)

ManagersUnchanged ==
    UNCHANGED <<execution_manager, stream_manager, storage, pc, fix_attempt,
                execution_result, summary, busy, cancel_pending, cancel_sent, subs,
                calls, outcomes, req, cancelledAt, api, code, returned, stepwise>>

\* df = storage.get_dataset(file_id)
FetchDataset(e) ==
    /\ df[e] = NoRef
    /\ LET g == get_dataset(heap) IN
          /\ heap' = g.heap
          /\ df' = [df EXCEPT ![e] = g.ref]
    /\ UNCHANGED seen
    /\ ManagersUnchanged

\* code_executor.execute(python_code, df), with a script that changes its df
\* in place (mutates) or leaves it alone.
RunScript(e, mutates) ==
    /\ df[e] # NoRef
    /\ Len(seen[e]) < 1 + max_fix_attempts
    /\ LET g == exec_globals_df(heap, df[e]) IN
          /\ seen' = [seen EXCEPT ![e] = Append(@, g.heap[g.ref])]
          /\ heap' = IF mutates
                     THEN [g.heap EXCEPT ![g.ref] = @ \cup {e}]
                     ELSE g.heap
    /\ UNCHANGED df
    /\ ManagersUnchanged

NextDataset ==
    \E e \in ConcurrentIds :
        \/ FetchDataset(e)
        \/ \E m \in BOOLEAN : RunScript(e, m)

SpecDataset == InitPair /\ [][NextDataset]_vars

\* ------------------------------------------------- one call of the runner
\* code_executor.execute called once by itself, with a script drawn from the
\* scripts that print up to MaxChunks chunks of output and then end, or
\* raise.

TableT1 == <<"TABLE_START:", "t1", Newline,
             "[", "{\"a\": 1, \"b\": \"x\"}", "]", Newline,
             "TABLE_END", Newline>>
TableT2 == <<"TABLE_START:", "t2", Newline,
             "[", "{\"a\": 2, \"b\": null}", ",", Newline,
             Blank, "{\"a\": 1, \"b\": \"x\"}", "]", Newline,
             Blank, "TABLE_END", Newline>>
TableEmpty == <<"TABLE_START:", "t3", Newline, "[", "]", Newline, "TABLE_END", Newline>>
TableMalformed == <<"TABLE_START:", "t4", Newline,
                    "[", "{\"a\": 1, \"b\": \"x\"}", Newline,
                    "TABLE_END", Newline>>
TableOpen == <<"TABLE_START:", "t5", Newline>>
JsonLine == <<"[", "{\"a\": 1, \"b\": \"x\"}", "]", Newline>>
PlotA == <<"PLOT_BASE64:", "AAAA", Newline>>
PlotB == <<Blank, "PLOT_BASE64:", "BBBB", Newline>>
MetricRows == <<"METRIC:", "rows", ":", "120", Newline>>
MetricCols == <<"METRIC:", "cols", ":", "5", Newline>>
MetricRatio == <<"METRIC:", "ratio", ":", "1", ":", "2", Newline>>
MetricLabel == <<"METRIC:", "label", ":", "abc", Newline>>
MetricBare == <<"METRIC:", "note", Newline>>
Chatter == <<"hello", Newline>>

Chunks == {TableT1, TableT2, TableEmpty, TableMalformed, TableOpen, JsonLine,
           PlotA, PlotB, MetricRows, MetricCols, MetricRatio, MetricLabel,
           MetricBare, Chatter}

\* The texts of at most n chunks.
RECURSIVE Texts(_)
Texts(n) ==
    IF n = 0 THEN {<<>>}
    ELSE LET shorter == Texts(n - 1) IN
         shorter \cup {t \o c : t \in shorter, c \in Chunks}

\* What exec(code) can raise into execute: a NameError, another Exception,
\* or a BaseException that is no Exception.
Exceptions == {"NameError", "ValueError", "SystemExit", "KeyboardInterrupt"}
Messages == {"", "name 'x' is not defined"}

Scripts ==
    {[stdout |-> o, raises |-> "none", message |-> ""] : o \in Texts(MaxChunks)}
    \cup {[stdout |-> o, raises |-> r, message |-> m] :
              o \in Texts(MaxChunksBeforeRaise), r \in Exceptions, m \in Messages}

InitRunner ==
    /\ execution_manager = [active_executions |-> {},
                            execution_metadata |-> [e \in ExecIds |-> NoMetadata]]
    /\ stream_manager = [active_streams |-> {},
                         queues |-> [e \in ExecIds |-> <<>>],
                         completed_streams |-> {},
                         cached_events |-> [e \in ExecIds |-> <<>>]]
    /\ storage = [datasets |-> {"f1"}, results |-> [e \in ExecIds |-> NoResult]]
    /\ pc = [e \in ExecIds |-> "idle"]
    /\ fix_attempt = [e \in ExecIds |-> 0]
    /\ execution_result = [e \in ExecIds |-> [error |-> NoError, status |-> "unset"]]
    /\ summary = [e \in ExecIds |-> ""]
    /\ busy = NoExec
    /\ cancel_pending = [e \in ExecIds |-> 0]
    /\ cancel_sent = [e \in ExecIds |-> 0]
    /\ subs = [s \in Subscribers |-> NoSub]
    /\ calls = [e \in ExecIds |-> <<>>]
    /\ outcomes = [e \in ExecIds |-> <<>>]
    /\ req = [e \in ExecIds |-> NoReq]
    /\ cancelledAt = [e \in ExecIds |-> "none"]
    /\ api = <<>>
    /\ NoScriptRun
    /\ code \in Scripts
    /\ returned = NotReturned
    /\ stepwise = FALSE

\* code_executor.execute(code, df)
Execute ==
    /\ ~returned.called
    /\ returned' = CodeExecutor_execute(code)
    /\ UNCHANGED <<execution_manager, stream_manager, storage, pc, fix_attempt,
                   execution_result, summary, busy, cancel_pending, cancel_sent, subs,
                   calls, outcomes, req, cancelledAt, api, heap, df, seen, code, stepwise>>

NextRunner == Execute

SpecRunner == InitRunner /\ [][NextRunner]_vars

\* ---------------------------------------------- the manager objects alone
\* ExecutionManager and StreamManager are module-level objects with public
\* methods.  The two specifications below call the methods of one of them in
\* any order and with any arguments, as a caller holding the object can; api
\* is the log of the calls.  None of the methods called has a raise statement
\* or an operation that can fail on these arguments (set.add, set.discard,
\* dict.pop with a default, dict assignment, Queue()), so every call
\* returns: raised is FALSE.

\* Calls made on a manager object in one run.
MaxApiCalls == 4

ApiIds == {"e1", "e2"}

FileIds == {"f1", "f2"}

TaskIds == {"t1", "t2"}

SentKinds == {"planning", "complete"}

Call(op, e, file_id, task_id) ==
    [op |-> op, id |-> e, file_id |-> file_id, task_id |-> task_id, raised |-> FALSE]

\* Both objects as constructed, no execution started.
InitApi ==
    /\ execution_manager = [active_executions |-> {},
                            execution_metadata |-> [e \in ApiIds |-> NoMetadata]]
    /\ stream_manager = [active_streams |-> {},
                         queues |-> [e \in ApiIds |-> <<>>],
                         completed_streams |-> {},
                         cached_events |-> [e \in ApiIds |-> <<>>]]
    /\ storage = [datasets |-> {"f1"}, results |-> [e \in ExecIds |-> NoResult]]
    /\ pc = [e \in ExecIds |-> "idle"]
    /\ fix_attempt = [e \in ExecIds |-> 0]
    /\ execution_result = [e \in ExecIds |-> [error |-> NoError, status |-> "unset"]]
    /\ summary = [e \in ExecIds |-> ""]
    /\ busy = NoExec
    /\ cancel_pending = [e \in ExecIds |-> 0]
    /\ cancel_sent = [e \in ExecIds |-> 0]
    /\ subs = [s \in Subscribers |-> NoSub]
    /\ calls = [e \in ExecIds |-> <<>>]
    /\ outcomes = [e \in ExecIds |-> <<>>]
    /\ req = [e \in ExecIds |-> NoReq]
    /\ cancelledAt = [e \in ExecIds |-> "none"]
    /\ api = <<>>
    /\ NoScriptRun
    /\ NoExecuteCall
    /\ stepwise = FALSE

ProgramUnchanged ==
    UNCHANGED <<storage, pc, fix_attempt, execution_result, summary, busy,
                cancel_pending, cancel_sent, subs, calls, outcomes, req, cancelledAt,
                heap, df, seen, code, returned, stepwise>>

\* execution_manager.add_execution(e, file_id, task_id)
AddExecution(e, file_id, task_id) ==
    /\ Len(api) < MaxApiCalls
    /\ execution_manager' = add_execution(execution_manager, e, file_id, task_id, Now)
    /\ api' = Append(api, Call("add_execution", e, file_id, task_id))
    /\ UNCHANGED stream_manager
    /\ ProgramUnchanged

\* execution_manager.remove_execution(e)
RemoveExecution(e) ==
    /\ Len(api) < MaxApiCalls
    /\ execution_manager' = remove_execution(execution_manager, e)
    /\ api' = Append(api, Call("remove_execution", e, "", ""))
    /\ UNCHANGED stream_manager
    /\ ProgramUnchanged

NextRegistry ==
    \E e \in ApiIds :
        \/ \E f \in FileIds, t \in TaskIds : AddExecution(e, f, t)
        \/ RemoveExecution(e)

SpecRegistry == InitApi /\ [][NextRegistry]_vars

\* stream_manager.create_stream(e)
CreateStream(e) ==
    /\ Len(api) < MaxApiCalls
    /\ stream_manager' = create_stream(stream_manager, e)
    /\ api' = Append(api, Call("create_stream", e, "", ""))
    /\ UNCHANGED execution_manager
    /\ ProgramUnchanged

\* await stream_manager.send_event(e, kind, data)
SendEvent(e, kind) ==
    /\ Len(api) < MaxApiCalls
    /\ stream_manager' = send_event(stream_manager, e, kind, NoData)
    /\ api' = Append(api, Call("send_event", e, "", ""))
    /\ UNCHANGED execution_manager
    /\ ProgramUnchanged

\* await stream_manager.close_stream(e)
CloseStream(e) ==
    /\ Len(api) < MaxApiCalls
    /\ stream_manager' = close_stream(stream_manager, e)
    /\ api' = Append(api, Call("close_stream", e, "", ""))
    /\ UNCHANGED execution_manager
    /\ ProgramUnchanged

NextStreams ==
    \E e \in ApiIds :
        \/ CreateStream(e)
        \/ \E k \in SentKinds : SendEvent(e, k)
        \/ CloseStream(e)

SpecStreams == InitApi /\ [][NextStreams]_vars

\* ================================================================== claims
Cached(e) == stream_manager.cached_events[e]

Terminals(e) == {i \in DOMAIN Cached(e) : Cached(e)[i].event \in TerminalKinds}

Events(recv) == [i \in DOMAIN recv |-> recv[i].ev]

IsPrefix(a, b) == Len(a) <= Len(b) /\ \A i \in DOMAIN a : a[i] = b[i]

Ended(s) == subs[s].spc \in {"ended_sentinel", "ended_no_channel"}

\* C1 (as stated): an execution that was started and never cancelled ends
\* with a terminal event (`complete` or `error`) published and its stream
\* closed, whatever the oracle calls and the script do.
C1_TerminalThenClosed ==
    \A e \in ExecIds :
        (pc[e] = "done" /\ cancel_sent[e] = 0)
            => /\ Terminals(e) # {}
               /\ e \in stream_manager.completed_streams

\* C2 (as stated): the events of an execution that is not cancelled hold
\* exactly one terminal event, which is the last event published, and a
\* subscriber whose subscription began before the run started receives
\* every published event once, in publish order.
C2_ExactlyOneTerminalLast ==
    \A e \in ExecIds :
        cancel_sent[e] = 0 =>
            /\ Cardinality(Terminals(e)) <= 1
            /\ \A i \in Terminals(e) : i = Len(Cached(e))
            /\ pc[e] = "done" => Cardinality(Terminals(e)) = 1
            /\ \A s \in Subscribers :
                  (subs[s].exec = e /\ subs[s].startedAt = "queued")
                      => /\ IsPrefix(Events(subs[s].recv), Cached(e))
                         /\ subs[s].spc = "ended_sentinel"
                               => Events(subs[s].recv) = Cached(e)

\* Positions of execute_task_async in the states Planning, CodeGeneration,
\* Executing and AutoFixing.
PlanningPcs == {"sleep_planning", "in_oracle_plan"}

CodeGenerationPcs == {"sleep_codegen"}

ExecutingPcs == {"sleep_exec", "in_script"}

AutoFixingPcs == {"in_oracle_fix", "in_script_fix"}

TerminalAfter(e, n) == \E i \in Terminals(e) : i > n

\* C3 (as stated): when cancellation is requested in Planning,
\* CodeGeneration, Executing or AutoFixing, the step in progress finishes,
\* no further oracle call or script run is begun, and no `complete` or
\* `error` event is published after the request.
C3_NoStepAfterCancelRequest ==
    \A e \in ExecIds :
        req[e].at \in PlanningPcs \cup CodeGenerationPcs \cup ExecutingPcs \cup AutoFixingPcs
            => /\ Len(calls[e]) = req[e].calls
               /\ ~TerminalAfter(e, req[e].cached)

\* C4 (as stated): an execution whose cancellation, requested before
\* Executing begins, has taken effect has no `complete` and no `error`
\* event in its stream, and is not live.
C4_CancelledBeforeExecuting ==
    \A e \in ExecIds :
        (req[e].at \in PlanningPcs \cup CodeGenerationPcs /\ cancelledAt[e] # "none")
            => /\ Terminals(e) = {}
               /\ ~is_active(execution_manager, e)

\* C5 (as stated): a subscriber whose subscription begins after `planning`
\* and `code_generation` were published and before `complete` receives
\* `planning`, `code_generation` and then the later events, each once and in
\* publish order: what it has received is always a prefix of the events
\* published.
C5_LateSubscriberNoDuplicates ==
    \A s \in Subscribers :
        subs[s].startedAt \in {"sleep_codegen", "sleep_exec"}
            => IsPrefix(Events(subs[s].recv), Cached(subs[s].exec))

\* C6 (as stated): a subscriber that first attaches after the stream was
\* closed receives exactly the cached events, each once and in recorded
\* order, and then its sequence ends, whether or not an earlier subscriber
\* drained the live channel.
C6_AttachAfterClose ==
    \A s \in Subscribers :
        subs[s].closedAtAttach
            => /\ IsPrefix(Events(subs[s].recv), Cached(subs[s].exec))
               /\ Ended(s) => Events(subs[s].recv) = Cached(subs[s].exec)

FromLive(s) == {i \in DOMAIN subs[s].recv : subs[s].recv[i].src = "live"}

\* C7 (as stated): of the subscribers attached to one execution at most one
\* receives events taken from the live channel.
C7_SingleLiveConsumer ==
    \A s, t \in Subscribers :
        (s # t /\ subs[s].exec = subs[t].exec)
            => (FromLive(s) = {} \/ FromLive(t) = {})

\* C8 (as stated, for the runs that have come to rest): once the stream is
\* closed, the execution has finished and the live channel is empty, no
\* subscriber is left waiting on the channel; every iteration has ended.
C8_NoSubscriberLeftWaiting ==
    \A s \in Subscribers :
        LET e == subs[s].exec IN
        (subs[s].spc = "live" /\ pc[e] = "done" /\ e \in stream_manager.completed_streams)
            => stream_manager.queues[e] # <<>>

\* C9 (as stated): a subscribe iteration that has ended by itself belongs to
\* an execution whose stream has been closed: the stream is marked completed
\* or the orchestrator has made its closing call and finished.
C9_EndsOnlyAfterClose ==
    \A s \in Subscribers :
        Ended(s) => \/ subs[s].exec \in stream_manager.completed_streams
                    \/ pc[subs[s].exec] = "done"

AlwaysFaults(e) ==
    \A i \in DOMAIN outcomes[e] : calls[e][i] = "run" => outcomes[e][i] = "fault"

RepairNeverFails(e) ==
    \A i \in DOMAIN outcomes[e] : calls[e][i] = "repair" => outcomes[e][i] = "ok"

Failed(e, err) ==
    /\ storage.results[e] = FailedResult(err)
    /\ Cached(e) # <<>>
    /\ Cached(e)[Len(Cached(e))].event = "error"
    /\ Cached(e)[Len(Cached(e))].data.error = err

\* C10: an execution makes at most 2 repair oracle calls and at most 3
\* Script Runner invocations; a repair call directly follows a script run
\* that returned a fault; and an uncancelled execution whose script faults on
\* every run, with a repair oracle that never fails, ends after exactly 2
\* repair calls as Failed with the fault of its third run.
C10_AutoFixBound ==
    \A e \in ExecIds :
        /\ NumCalls(e, "repair") <= 2
        /\ NumCalls(e, "run") <= 3
        /\ \A i \in DOMAIN calls[e] :
              calls[e][i] = "repair"
                  => /\ i > 1
                     /\ calls[e][i - 1] = "run"
                     /\ outcomes[e][i - 1] = "fault"
        /\ (/\ pc[e] = "done"
            /\ cancelledAt[e] = "none"
            /\ NumCalls(e, "run") >= 1
            /\ AlwaysFaults(e)
            /\ RepairNeverFails(e))
               => /\ NumCalls(e, "repair") = 2
                  /\ NumCalls(e, "run") = 3
                  /\ Failed(e, Fault(3))

\* C10's case: the script faulted three times, two repairs in between, and
\* the execution has ended as Failed.
C10_Witness ==
    \E e \in ExecIds :
        /\ pc[e] = "done"
        /\ calls[e] = <<"plan", "run", "repair", "run", "repair", "run">>
        /\ outcomes[e] = <<"ok", "fault", "ok", "fault", "ok", "fault">>
        /\ Failed(e, Fault(3))

RepairRaised(e) ==
    {i \in DOMAIN outcomes[e] : calls[e][i] = "repair" /\ outcomes[e][i] = "raise"}

LastCached(e) == Cached(e)[Len(Cached(e))]

\* C11: when the repair call of an auto-fix attempt raises, it is the last
\* call the execution makes (no further repair call, no further script run),
\* the result of the last script run is kept, and the execution has ended as
\* Failed with an `error` event carrying that run's fault.
C11_RepairRaiseKeepsLastRun ==
    \A e \in ExecIds :
        \A i \in RepairRaised(e) :
            /\ i = Len(calls[e])
            /\ execution_result[e].error = Fault(NumCalls(e, "run"))
            /\ pc[e] = "done"
            /\ Failed(e, Fault(NumCalls(e, "run")))

\* C11's case: the repair call of the second attempt raised after two faulted
\* runs, and the `error` event carries the second run's fault.
C11_Witness ==
    \E e \in ExecIds :
        /\ calls[e] = <<"plan", "run", "repair", "run", "repair">>
        /\ outcomes[e] = <<"ok", "fault", "ok", "fault", "raise">>
        /\ LastCached(e).event = "error"
        /\ LastCached(e).data.error = Fault(2)

SummarizeFailed(e) ==
    \E i \in DOMAIN outcomes[e] : calls[e][i] = "summarize" /\ outcomes[e][i] = "raise"

KindsOf(e, kind) == {i \in DOMAIN Cached(e) : Cached(e)[i].event = kind}

\* C12: when the summary oracle call raises, the execution is Completed all
\* the same: the `summary` event and the stored result carry the draft
\* summary of the plan, `complete` is published after it, and no `error`
\* event is published.
C12_SummaryFallback ==
    \A e \in ExecIds :
        SummarizeFailed(e)
            => /\ storage.results[e] = CompletedResult("draft")
               /\ Cardinality(KindsOf(e, "summary")) = 1
               /\ \A i \in KindsOf(e, "summary") :
                     /\ Cached(e)[i].data.summary = "draft"
                     /\ i + 1 = Len(Cached(e))
               /\ LastCached(e).event = "complete"
               /\ LastCached(e).data.summary = "draft"
               /\ KindsOf(e, "error") = {}

\* C12's case: the summary oracle raised after a clean script run and the
\* execution has finished with `complete`.
C12_Witness ==
    \E e \in ExecIds :
        /\ pc[e] = "done"
        /\ calls[e] = <<"plan", "run", "summarize">>
        /\ outcomes[e] = <<"ok", "ok", "raise">>
        /\ LastCached(e).event = "complete"
        /\ storage.results[e].status = "completed"

\* A step of the cancel endpoint for e: it alone takes a request off the
\* pending ones.
CancelHandled(e) == cancel_pending'[e] < cancel_pending[e]

\* C13 (as stated): cancel on a live execution removes it from the registry
\* and closes its stream, so that when cancel returns the execution is not
\* live and its stream is marked completed; cancel on an execution that is
\* not live changes neither the registry nor any stream.  (Both branches of
\* the handler return their message; neither raises.)
C13_CancelRemovesAndCloses ==
    [][\A e \in ExecIds :
          CancelHandled(e) =>
              IF is_active(execution_manager, e)
              THEN /\ ~is_active(execution_manager', e)
                   /\ e \in stream_manager'.completed_streams
              ELSE UNCHANGED <<execution_manager, stream_manager>>]_vars

\* The events of a live channel, the terminal sentinels left out.
QueuedEvents(q) == SelectSeq(q, LAMBDA x : x # Sentinel)

\* C14 (as stated): once the stream of an execution is closed, no event is
\* published on it any more: its replay cache stays as it is and no event is
\* enqueued on its live channel behind the sentinel.
C14_NoPublishAfterClose ==
    [][\A e \in ExecIds :
          e \in stream_manager.completed_streams
              => /\ stream_manager'.cached_events[e] = stream_manager.cached_events[e]
                 /\ Len(QueuedEvents(stream_manager'.queues[e]))
                        <= Len(QueuedEvents(stream_manager.queues[e]))]_vars

\* The step's script run ended with SystemExit: execute_task_async leaves
\* through its finally clause alone, without a close_stream call.
ScriptExits(e) ==
    /\ Len(outcomes'[e]) > Len(outcomes[e])
    /\ outcomes'[e][Len(outcomes'[e])] = "exit"

\* A step in which close_stream(e) is called and returns: execute_task_async
\* returns after its closing call (at a checkpoint, after the `error` of a
\* failed run, or after the final sleep), or the cancel endpoint closes the
\* stream of a live execution.
CloseReturns(e) ==
    \/ /\ pc[e] \notin {"idle", "queued", "rejected", "done"}
       /\ pc'[e] = "done"
       /\ ~ScriptExits(e)
    \/ CancelHandled(e) /\ is_active(execution_manager, e)

\* C15 (as stated): after close_stream(e) returns the stream of e is marked
\* completed, whether or not a live channel was present, so also when the
\* only subscriber had detached and the channel was removed.
C15_CloseMarksCompleted ==
    [][\A e \in ExecIds :
          CloseReturns(e) => e \in stream_manager'.completed_streams]_vars

\* The stream of e has been opened by run_task.
Opened(e) == pc[e] \notin {"idle", "rejected"}

\* A step of the stream endpoint for subscriber s, called with execution e.
Subscribes(s, e) == subs[s].spc = "idle" /\ subs'[s].spc # "idle" /\ subs'[s].exec = e

\* C16 (as stated): subscribe reports not-found exactly for an execution id
\* whose stream was never opened; then there is neither a replay cache nor a
\* completed marker.  An id whose stream was opened is never reported
\* not-found, whether the execution runs or has finished, and whether or
\* not an earlier subscriber has detached.
C16_NotFoundOnlyIfNeverOpened ==
    [][\A s \in Subscribers : \A e \in ExecIds :
          Subscribes(s, e) =>
              /\ (subs'[s].spc = "not_found") <=> ~Opened(e)
              /\ subs'[s].spc = "not_found"
                    => /\ Cached(e) = <<>>
                       /\ e \notin stream_manager.completed_streams]_vars

\* The send_event calls execute_task_async makes for e in a step, read off
\* the positions it leaves and reaches: one before each sleep and before each
\* repair call, `summary` and `complete` before the final sleep, and the
\* `error` of a failed run, which is stored in the same step.
PublishCalls(e) ==
    IF pc'[e] = pc[e] THEN 0
    ELSE IF pc'[e] \in {"sleep_planning", "sleep_codegen", "sleep_exec",
                        "in_oracle_fix", "sleep_except"} THEN 1
    ELSE IF pc'[e] = "sleep_complete" THEN 2
    ELSE IF pc'[e] = "done" /\ storage'.results[e] # storage.results[e] THEN 1
    ELSE 0

\* C17: every send_event call appends exactly one event to the end of the
\* replay cache of its execution, also when no live channel is registered;
\* when one is registered, the same event is enqueued on it exactly once,
\* and otherwise the channel is left alone.
C17_PublishAppendsOnce ==
    [][\A e \in ExecIds :
          LET old == stream_manager.cached_events[e]
              new == stream_manager'.cached_events[e]
              sent == SubSeq(new, Len(old) + 1, Len(new))
          IN /\ IsPrefix(old, new)
             /\ Len(new) = Len(old) + PublishCalls(e)
             /\ PublishCalls(e) > 0 =>
                   IF get_stream(stream_manager, e)
                   THEN QueuedEvents(stream_manager'.queues[e])
                          = QueuedEvents(stream_manager.queues[e]) \o sent
                   ELSE stream_manager'.queues[e] = stream_manager.queues[e]]_vars

\* C17's case: the subscriber that was attached from the start has left, and
\* the cache holds events it neither received nor left behind on the
\* channel: they were published with no live channel registered.
C17_Witness ==
    \E e \in ExecIds :
        /\ subs["s1"].exec = e
        /\ subs["s1"].spc = "detached"
        /\ subs["s1"].startedAt = "queued"
        /\ ~get_stream(stream_manager, e)
        /\ Len(Cached(e)) > Len(subs["s1"].recv) + Len(QueuedEvents(stream_manager.queues[e]))

\* The call made in a step of SpecRegistry or SpecStreams.
Calling(op, e) ==
    /\ Len(api') = Len(api) + 1
    /\ api'[Len(api')].op = op
    /\ api'[Len(api')].id = e

SucceededCalls(log, op, e) ==
    {i \in DOMAIN log : log[i].op = op /\ log[i].id = e /\ ~log[i].raised}

\* C18 (as stated): create_stream on an execution id that already has a
\* stream (a live channel, or a stream that was closed) fails and leaves the
\* replay cache and the live channel, with the events enqueued on it, as
\* they were; so an execution id gets at most one live channel, and a closed
\* channel is never replaced.
C18_OpenOncePerId ==
    [][\A e \in ApiIds :
          Calling("create_stream", e) =>
              /\ (get_stream(stream_manager, e) \/ e \in stream_manager.completed_streams)
                    => /\ api'[Len(api')].raised
                       /\ stream_manager' = stream_manager
              /\ Cardinality(SucceededCalls(api', "create_stream", e)) <= 1]_vars

\* C19 (as stated): add_execution on an execution id that is already
\* registered fails and leaves its entry (dataset reference, task id and
\* registration time) as it was; on an id that is not registered it makes
\* the id live with the metadata given.
C19_RegisterOnce ==
    [][\A e \in ApiIds :
          Calling("add_execution", e) =>
              IF is_active(execution_manager, e)
              THEN /\ api'[Len(api')].raised
                   /\ execution_manager' = execution_manager
              ELSE /\ is_active(execution_manager', e)
                   /\ get_metadata(execution_manager', e).file_id = api'[Len(api')].file_id
                   /\ get_metadata(execution_manager', e).task_id = api'[Len(api')].task_id
                   /\ get_metadata(execution_manager', e).started_at = Now]_vars

\* The last call made on e, "none" for an id no call was made on.
LastOp(log, e) ==
    LET on == {i \in DOMAIN log : log[i].id = e} IN
    IF on = {} THEN "none"
    ELSE log[CHOOSE i \in on : \A j \in on : j <= i].op

\* e is unknown to the registry or was removed from it.
UnknownOrRemoved(log, e) == LastOp(log, e) \in {"none", "remove_execution"}

Observed(em) ==
    [live |-> [x \in ApiIds |-> is_active(em, x)],
     count |-> get_active_count(em),
     metadata |-> [x \in ApiIds |-> get_metadata(em, x)]]

\* C20: remove_execution never raises; a remove of an id that is unknown or
\* was already removed leaves is_active, the count and the metadata of every
\* id as they were; and after any remove, every id that is unknown or
\* removed is not live and has empty metadata.
C20_RemoveIdempotent ==
    [][\A e \in ApiIds :
          Calling("remove_execution", e) =>
              /\ ~api'[Len(api')].raised
              /\ UnknownOrRemoved(api, e)
                    => Observed(execution_manager') = Observed(execution_manager)
              /\ \A x \in ApiIds :
                    UnknownOrRemoved(api', x)
                        => /\ ~is_active(execution_manager', x)
                           /\ get_metadata(execution_manager', x) = NoMetadata]_vars

\* C20's case: an id was registered and then removed twice in a row, while
\* another id stays registered.
C20_Witness ==
    \E e, x \in ApiIds :
        /\ e # x
        /\ Len(api) >= 4
        /\ api[Len(api)].op = "remove_execution" /\ api[Len(api)].id = e
        /\ api[Len(api) - 1].op = "remove_execution" /\ api[Len(api) - 1].id = e
        /\ \E i \in 1..(Len(api) - 2) : api[i].op = "add_execution" /\ api[i].id = e
        /\ is_active(execution_manager, x)
        /\ ~is_active(execution_manager, e)
        /\ get_active_count(execution_manager) = 1

\* The run request has handed out e and the execution has neither finished
\* nor been cancelled.
HandedOut(e) == pc[e] \notin {"idle", "rejected", "done"} /\ cancelledAt[e] = "none"

\* C21 (as stated): an execution is live in the registry from the moment the
\* run request has created its id and opened its stream until it is removed:
\* in no reachable state is an id handed out, its execution neither finished
\* nor cancelled, and is_active false.
C21_LiveFromRunRequest ==
    \A e \in ExecIds : HandedOut(e) => is_active(execution_manager, e)

NotRunning(e) == pc[e] \in {"idle", "rejected", "done"}

\* C22: when execute_task_async has finished for an execution, on whatever
\* path, the execution is not live and get_active_count does not count it:
\* the live ids are ids of executions still running, and once every started
\* execution has finished the count is 0.
C22_FinishedNotCounted ==
    /\ \A e \in ConcurrentIds :
          pc[e] = "done" => /\ ~is_active(execution_manager, e)
                            /\ get_metadata(execution_manager, e) = NoMetadata
    /\ get_active_count(execution_manager)
          <= Cardinality({e \in ConcurrentIds : ~NotRunning(e)})
    /\ (\A e \in ConcurrentIds : NotRunning(e)) => get_active_count(execution_manager) = 0

\* C22's case: both executions have finished, one through the exception
\* handler after the plan oracle raised, the other at a checkpoint after it
\* was cancelled, and nothing is counted any more.
C22_Witness ==
    /\ pc["e1"] = "done" /\ pc["e2"] = "done"
    /\ outcomes["e1"] = <<"raise">>
    /\ cancelledAt["e1"] = "none"
    /\ cancelledAt["e2"] \in {"sleep_planning", "sleep_codegen"}
    /\ get_active_count(execution_manager) = 0

\* Positions at which execute_task_async waits to be started or resumed.
ResumePcs == {"queued", "sleep_planning", "sleep_codegen", "sleep_exec",
              "sleep_complete", "sleep_except"}

\* C23 (as stated): while one execution is inside an oracle call or a script
\* run, the others can take steps: another execution that waits to be
\* started or to resume from a pause can go on, a new run request can be
\* served, and a cancel request that has arrived can be handled.
C23_NoExecutionBlocksAnother ==
    \A e, f \in ConcurrentIds :
        (busy = e /\ f # e)
            => /\ (pc[f] \in ResumePcs /\ \A g \in ConcurrentIds : cancel_pending[g] = 0)
                     => ENABLED OrchNext(f)
               /\ pc[f] = "idle" /\ (\A g \in ConcurrentIds : cancel_pending[g] = 0)
                     => ENABLED run_task(f)
               /\ cancel_pending[f] > 0 => ENABLED cancel_task(f)

\* The stream of e as the StreamManager holds it.
StreamOf(sm, e) ==
    [cache |-> sm.cached_events[e], queue |-> sm.queues[e],
     active |-> e \in sm.active_streams, completed |-> e \in sm.completed_streams]

\* The kinds execute_task_async publishes for e in a step, read off the
\* position it reaches.
PublishedKinds(e) ==
    IF pc'[e] = pc[e] THEN <<>>
    ELSE IF pc'[e] = "sleep_planning" THEN <<"planning">>
    ELSE IF pc'[e] = "sleep_codegen" THEN <<"code_generation">>
    ELSE IF pc'[e] \in {"sleep_exec", "in_oracle_fix"} THEN <<"execution">>
    ELSE IF pc'[e] = "sleep_except" THEN <<"error">>
    ELSE IF pc'[e] = "sleep_complete" THEN <<"summary", "complete">>
    ELSE IF pc'[e] = "done" /\ storage'.results[e] # storage.results[e] THEN <<"error">>
    ELSE <<>>

\* C24: with two executions running on the same dataset, a step of one
\* execution (its publishes and closes, and a cancel of it) leaves the replay
\* cache, the live channel and the completed marker of the other as they are,
\* and each cache is extended by exactly the events its own execution
\* publishes, in its publish order and with its own results.
C24_StreamsIndependent ==
    [][\A e \in ConcurrentIds :
          LET old == stream_manager.cached_events[e]
              new == stream_manager'.cached_events[e]
              sent == SubSeq(new, Len(old) + 1, Len(new))
          IN /\ (pc'[e] = pc[e] /\ ~CancelHandled(e))
                   => StreamOf(stream_manager', e) = StreamOf(stream_manager, e)
             /\ IsPrefix(old, new)
             /\ [i \in DOMAIN sent |-> sent[i].event] = PublishedKinds(e)
             /\ \A i \in DOMAIN sent :
                   /\ sent[i].event = "complete"
                         => sent[i].data.summary = storage'.results[e].summary
                   /\ sent[i].event = "error"
                         => sent[i].data.error = storage'.results[e].error]_vars

\* C24's case: both executions are running and have published, one further
\* on than the other.
C24_Witness ==
    /\ pc["e1"] = "in_oracle_fix" /\ pc["e2"] = "sleep_codegen"
    /\ Len(Cached("e1")) = 4 /\ Len(Cached("e2")) = 2
    /\ LastCached("e1").event = "execution"
    /\ LastCached("e2").event = "code_generation"

\* The dataset of e could not be supplied: the run request found none, or
\* the fetch before the first script run returned none.
FetchFailed(e) ==
    \/ pc[e] = "rejected"
    \/ \E i \in DOMAIN outcomes[e] : calls[e][i] = "run" /\ outcomes[e][i] = "raise"

\* C25 (as stated): an execution whose dataset fetch fails is aborted before
\* Planning: no `planning` event and no later event is published for it.
C25_AbortBeforePlanning ==
    \A e \in ExecIds : FetchFailed(e) => Cached(e) = <<>>

\* C26: every script run works on a private copy of the dataset: the stored
\* dataset keeps its content, the DataFrame an execution fetched keeps its
\* content, and every run, of whichever execution and also an auto-fix run
\* after a run that changed its df, finds the content as uploaded.
C26_PrivateDatasetCopy ==
    /\ heap[StoredRef] = Original
    /\ \A e \in ConcurrentIds :
          /\ df[e] # NoRef => heap[df[e]] = Original
          /\ \A i \in DOMAIN seen[e] : seen[e][i] = Original

\* C26's case: both executions have run scripts that changed their df, one
\* of them three times, and the changed objects are on the heap.
C26_Witness ==
    /\ Len(seen["e1"]) = 3 /\ Len(seen["e2"]) >= 1
    /\ Cardinality({r \in DOMAIN heap : heap[r] = {"e1"}}) = 3
    /\ \E r \in DOMAIN heap : heap[r] = {"e2"}

\* The call of execute has ended, by return or by an exception.
Called == returned.called

\* C27: execute never raises to its caller; when the script raises, the
\* returned fault is a non-empty message and the artifacts are empty; when
\* it raises nothing, the fault is empty and the artifacts are the parser's
\* result on the captured stdout.
C27_RunNeverRaises ==
    Called =>
        /\ returned.raised = "none"
        /\ code.raises # "none" =>
              /\ returned.result.error \notin {None, ""}
              /\ returned.result.artifacts = [dict |-> EmptyArtifacts]
        /\ code.raises = "none" =>
              /\ returned.result.error = None
              /\ returned.result.artifacts = [list |-> _parse_output(code.stdout)]

\* The call returned for a script that raised nothing.
Parsed == Called /\ code.raises = "none"

\* The artifacts the call returned, and those of one type.
Returned == returned.result.artifacts.list
OfType(type) == SelectSeq(Returned, LAMBDA a : a.type = type)

\* The rest of the line after each occurrence of the marker in the text, in
\* the order of the text.
RECURSIVE Mentions(_, _)
Mentions(s, marker) ==
    IF s = <<>> THEN <<>>
    ELSE IF Head(s) = marker
         THEN <<Head(split(Tail(s), Newline))>> \o Mentions(Tail(s), marker)
         ELSE Mentions(Tail(s), marker)

\* a is b with some elements left out.
RECURSIVE IsSubseq(_, _)
IsSubseq(a, b) ==
    IF a = <<>> THEN TRUE
    ELSE IF b = <<>> THEN FALSE
    ELSE IF Head(a) = Head(b) THEN IsSubseq(Tail(a), Tail(b))
    ELSE IsSubseq(a, Tail(b))

Rank(type) == CASE type = "table" -> 1 [] type = "plot" -> 2 [] type = "metrics" -> 3

\* C28: the parser returns all tables, then all plots, then the one Metrics
\* artifact, whatever the order of the markers in the text; the tables are in
\* the order of their TABLE_START lines and the plots in the order of their
\* PLOT_BASE64 lines.
C28_TablesPlotsMetrics ==
    Parsed =>
        /\ \A i, j \in DOMAIN Returned :
              i < j => Rank(Returned[i].type) <= Rank(Returned[j].type)
        /\ Len(OfType("metrics")) <= 1
        /\ IsSubseq([i \in DOMAIN OfType("table") |-> OfType("table")[i].name],
                    Mentions(code.stdout, "TABLE_START:"))
        /\ IsSubseq([i \in DOMAIN OfType("plot") |-> OfType("plot")[i].data],
                    Mentions(code.stdout, "PLOT_BASE64:"))

\* C28's case: a text with a metric, then a plot, then a table has been
\* parsed into the three artifacts.
C28_Witness ==
    /\ Parsed
    /\ code.stdout = MetricRows \o PlotA \o TableT1
    /\ Len(Returned) = 3

\* The scenario's text, and its two artifacts.
ScenarioText == MetricRows \o MetricCols \o PlotA
ScenarioMetrics ==
    [type |-> "metrics",
     items |-> <<[name |-> <<"rows">>, value |-> [float |-> "120.0"]],
                 [name |-> <<"cols">>, value |-> [float |-> "5.0"]]>>]
ScenarioPlot ==
    [type |-> "plot", name |-> "plot_1", format |-> "png_base64", data |-> <<"AAAA">>]

\* C29 as stated: the lines METRIC:rows:120, METRIC:cols:5, PLOT_BASE64:AAAA
\* parse to the Metrics artifact followed by the Plot artifact.
C29_MetricsThenPlot ==
    (Parsed /\ code.stdout = ScenarioText) =>
        Returned = <<ScenarioMetrics, ScenarioPlot>>

\* C29, amended: the lines METRIC:rows:120, METRIC:cols:5, PLOT_BASE64:AAAA
\* parse to two artifacts, first the Plot named plot_1 with payload AAAA, then
\* the Metrics artifact with items ("rows", 120.0), ("cols", 5.0).
C29_PlotThenMetrics ==
    (Parsed /\ code.stdout = ScenarioText) =>
        Returned = <<ScenarioPlot, ScenarioMetrics>>

\* C29's case: the scenario's text has been parsed.
C29_Witness ==
    /\ Parsed
    /\ code.stdout = ScenarioText
    /\ Len(Returned) = 2

\* The well-formed chunks: table blocks holding a JSON array of homogeneous
\* objects, plot lines, and metric lines with a name and a value.
TableBlocks == {TableT1, TableT2, TableEmpty}
PlotLines == {PlotA, PlotB}
MetricLines == {MetricRows, MetricCols, MetricRatio, MetricLabel}
WellFormed == TableBlocks \cup PlotLines \cup MetricLines

\* The text is a concatenation of well-formed chunks.
RECURSIVE WellFormedText(_)
WellFormedText(s) ==
    \/ s = <<>>
    \/ \E c \in WellFormed :
          IsPrefix(c, s) /\ WellFormedText(SubSeq(s, Len(c) + 1, Len(s)))

\* The chunks of a well-formed text, in order.
RECURSIVE ChunksOf(_)
ChunksOf(s) ==
    IF s = <<>> THEN <<>>
    ELSE LET c == CHOOSE c \in WellFormed : IsPrefix(c, s) IN
         <<c>> \o ChunksOf(SubSeq(s, Len(c) + 1, Len(s)))

\* What each well-formed chunk writes down: a block's name, header row and
\* rows, a plot line's payload, a metric line's name and, where the value
\* holds no further colon, its value.
BlockName(c) ==
    CASE c = TableT1 -> <<"t1">> [] c = TableT2 -> <<"t2">> [] c = TableEmpty -> <<"t3">>
BlockData(c) ==
    CASE c = TableT1 -> << <<"a", "b">>, <<"1", "x">> >>
      [] c = TableT2 -> << <<"a", "b">>, <<"2", "None">>, <<"1", "x">> >>
Payload(c) == CASE c = PlotA -> <<"AAAA">> [] c = PlotB -> <<"BBBB">>
MetricName(c) ==
    CASE c = MetricRows -> <<"rows">> [] c = MetricCols -> <<"cols">>
      [] c = MetricRatio -> <<"ratio">> [] c = MetricLabel -> <<"label">>
MetricValues(c) ==
    CASE c = MetricRows -> {[float |-> "120.0"]}
      [] c = MetricCols -> {[float |-> "5.0"]}
      [] c = MetricLabel -> {[str |-> <<"abc">>]}
      [] c = MetricRatio -> {[float |-> "1.0"], [str |-> <<"1", ":", "2">>]}

\* One Plot per plot line, named plot_1, plot_2, ... in order, with the rest
\* of the line as payload.
PlotsMatch(cs) ==
    LET lines == SelectSeq(cs, LAMBDA c : c \in PlotLines)
        plots == OfType("plot")
    IN  /\ Len(plots) = Len(lines)
        /\ \A k \in DOMAIN plots :
              /\ plots[k].name = "plot_" \o ToString(k)
              /\ plots[k].data = Payload(lines[k])

\* A single Metrics artifact with one item per metric line in order, and
\* none when there is no metric line.
MetricsMatch(cs) ==
    LET lines == SelectSeq(cs, LAMBDA c : c \in MetricLines)
        metrics == OfType("metrics")
    IN  IF lines = <<>> THEN metrics = <<>>
        ELSE /\ Len(metrics) = 1
             /\ Len(metrics[1].items) = Len(lines)
             /\ \A k \in DOMAIN lines :
                   /\ metrics[1].items[k].name = MetricName(lines[k])
                   /\ metrics[1].items[k].value \in MetricValues(lines[k])

\* One Table per block among the given blocks, with its name, header row and
\* stringified rows.
TablesMatch(blocks) ==
    LET tables == OfType("table") IN
    /\ Len(tables) = Len(blocks)
    /\ \A k \in DOMAIN tables :
          /\ tables[k].name = BlockName(blocks[k])
          /\ blocks[k] # TableEmpty =>
                tables[k].data = BlockData(blocks[k])

NoOtherArtifact ==
    Len(Returned) = Len(OfType("table")) + Len(OfType("plot")) + Len(OfType("metrics"))

\* C30 as stated: a well-formed text parses into one Table per block, an
\* empty array's block included, one Plot per plot line and the single
\* Metrics artifact.
C30_RoundTripEveryBlock ==
    (Parsed /\ WellFormedText(code.stdout)) =>
        LET cs == ChunksOf(code.stdout) IN
        /\ TablesMatch(SelectSeq(cs, LAMBDA c : c \in TableBlocks))
        /\ PlotsMatch(cs)
        /\ MetricsMatch(cs)
        /\ NoOtherArtifact

\* C30, amended: a well-formed text parses into one Table per block that
\* holds a non-empty array (a block holding an empty array yields no Table),
\* one Plot per plot line named plot_1, plot_2, ... with the rest of the line
\* as payload, and a single Metrics artifact with one item per metric line in
\* order (none when there is no metric line).
C30_RoundTrip ==
    (Parsed /\ WellFormedText(code.stdout)) =>
        LET cs == ChunksOf(code.stdout) IN
        /\ TablesMatch(SelectSeq(cs, LAMBDA c : c \in TableBlocks \ {TableEmpty}))
        /\ PlotsMatch(cs)
        /\ MetricsMatch(cs)
        /\ NoOtherArtifact

\* C30's case: a text of an empty array's block, a block of one object and a
\* plot line has been parsed into a Table and a Plot.
C30_Witness ==
    /\ Parsed
    /\ code.stdout = TableEmpty \o TableT1 \o PlotA
    /\ Len(Returned) = 2

\* The chunks of a text, in order.
RECURSIVE Printed(_)
Printed(s) ==
    IF s = <<>> THEN <<>>
    ELSE LET c == CHOOSE c \in Chunks : IsPrefix(c, s) IN
         <<c>> \o Printed(SubSeq(s, Len(c) + 1, Len(s)))

\* The chunks that end with a TABLE_END line.
Terminated == {TableT1, TableT2, TableEmpty, TableMalformed}

\* The chunks of cs that lie outside every block a lone TABLE_START line
\* opens: such a block runs to the next TABLE_END line, which is the end of
\* the next terminated block, or to the end of the text.
RECURSIVE Outside(_, _)
Outside(cs, open) ==
    IF cs = <<>> THEN <<>>
    ELSE IF open
         THEN Outside(Tail(cs), Head(cs) \notin Terminated)
         ELSE IF Head(cs) = TableOpen
              THEN Outside(Tail(cs), TRUE)
              ELSE <<Head(cs)>> \o Outside(Tail(cs), FALSE)

\* The well-formed chunks outside the blocks that do not parse and the
\* blocks that are not terminated.
Intact == SelectSeq(Outside(Printed(code.stdout), FALSE), LAMBDA c : c \in WellFormed)

\* C31: a table block that does not parse as a JSON array of objects, or is
\* never terminated, yields no Table and no fault, and every well-formed
\* table, plot and metric outside it is returned: the Tables are those of the
\* well-formed blocks outside, the Plots and metric items those of the plot
\* and metric lines outside.
C31_BadBlockDropped ==
    Parsed =>
        /\ returned.raised = "none"
        /\ returned.result.error = None
        /\ TablesMatch(SelectSeq(Intact, LAMBDA c : c \in TableBlocks \ {TableEmpty}))
        /\ PlotsMatch(Intact)
        /\ MetricsMatch(Intact)

\* What a METRIC line says: the name up to the first colon and the whole
\* rest of the line as the value, a number where float() takes it.
LineValue(c) ==
    CASE c = MetricRows -> [float |-> "120.0"]
      [] c = MetricCols -> [float |-> "5.0"]
      [] c = MetricLabel -> [str |-> <<"abc">>]
      [] c = MetricRatio -> [str |-> <<"1", ":", "2">>]

\* C32: for the METRIC lines met by the parser, the item's name is the text
\* up to the first colon and its value the entire rest of the line, further
\* colons included; a METRIC line with no colon after the name yields no
\* item.
C32_MetricValueIsRemainder ==
    Parsed =>
        LET lines == SelectSeq(Outside(Printed(code.stdout), FALSE),
                               LAMBDA c : c \in MetricLines)
            metrics == OfType("metrics")
        IN  IF lines = <<>> THEN metrics = <<>>
            ELSE /\ Len(metrics) = 1
                 /\ Len(metrics[1].items) = Len(lines)
                 /\ \A k \in DOMAIN lines :
                       /\ metrics[1].items[k].name = MetricName(lines[k])
                       /\ metrics[1].items[k].value = LineValue(lines[k])

\* The Tables a TABLE_START line with a TABLE_END line of its own gave.
OwnTables == SelectSeq(OfType("table"), LAMBDA a : a.name # <<"t5">>)

\* C39: the lines between a TABLE_START line and the next TABLE_END line, or
\* the end of the text when there is none, are no markers: the Plots and the
\* metric items are those of the plot and metric lines outside the blocks,
\* in order, and the TABLE_START lines inside a block give no Table, while
\* the markers before the block give their artifacts.
C39_NoMarkersInsideBlock ==
    Parsed =>
        LET outside == Outside(Printed(code.stdout), FALSE)
            blocks == SelectSeq(outside, LAMBDA c : c \in {TableT1, TableT2})
        IN  /\ PlotsMatch(outside)
            /\ LET lines == SelectSeq(outside, LAMBDA c : c \in MetricLines)
                   metrics == OfType("metrics")
               IN  IF lines = <<>> THEN metrics = <<>>
                   ELSE /\ Len(metrics) = 1
                        /\ [k \in DOMAIN metrics[1].items |-> metrics[1].items[k].name]
                              = [k \in DOMAIN lines |-> MetricName(lines[k])]
            /\ [k \in DOMAIN OwnTables |-> OwnTables[k].name]
                  = [k \in DOMAIN blocks |-> BlockName(blocks[k])]

\* C39's case: a plot line, then a TABLE_START line without TABLE_END,
\* then a metric line: only the Plot is returned.
C39_Witness ==
    /\ Parsed
    /\ code.stdout = PlotA \o TableOpen \o MetricRows
    /\ Len(Returned) = 1

\* C33 (as stated): in every state in which an `error` event is in an
\* execution's stream, the result store holds a failed result for that
\* execution: the result is stored before the event is published.
C33_FailedStoredBeforeError ==
    \A e \in ExecIds :
        (\E i \in DOMAIN Cached(e) : Cached(e)[i].event = "error")
            => storage.results[e].status = "failed"

\* The payloads of the `complete` events in the stream of e.
Completes(e) == {Cached(e)[i].data : i \in {j \in DOMAIN Cached(e) : Cached(e)[j].event = "complete"}}

\* A step publishes `complete` for e.
PublishesComplete(e) ==
    /\ Len(stream_manager'.cached_events[e]) > Len(Cached(e))
    /\ stream_manager'.cached_events[e][Len(stream_manager'.cached_events[e])].event = "complete"

\* `complete` is never published on a stream that is already closed.
CompleteOnlyWhileOpen ==
    [][\A e \in ExecIds :
          PublishesComplete(e) =>
              /\ e \notin stream_manager.completed_streams
              /\ \A i \in DOMAIN stream_manager.queues[e] :
                    stream_manager.queues[e][i] # Sentinel]_vars

\* C34 (as stated): in every state in which a `complete` event is in an
\* execution's stream, the result store holds a completed result for the
\* execution equal to the event's payload, and `complete` is never published
\* on a stream that is already closed.
C34_CompletedStoredThenPublished ==
    /\ [](\A e \in ExecIds : \A d \in Completes(e) :
             storage.results[e] = CompletedResult(d.summary))
    /\ CompleteOnlyWhileOpen

\* C34, amended: in every state in which a `complete` event is in an
\* execution's stream, the result store holds a completed result for the
\* execution equal to the event's payload, unless the store's cleanup of data
\* older than one hour has removed it after the execution ended; and
\* `complete` is never published on a stream that is already closed.
C34_CompletedStoredUntilCleanup ==
    /\ [](\A e \in ExecIds : \A d \in Completes(e) :
             \/ storage.results[e] = CompletedResult(d.summary)
             \/ /\ storage.results[e] = NoResult
                /\ pc[e] = "done"
                /\ "f1" \notin storage.datasets)
    /\ [][\A e \in ExecIds :
             (storage.results[e].status = "completed"
                 /\ storage'.results[e] # storage.results[e])
                => /\ storage'.results[e] = NoResult
                   /\ pc[e] = "done"
                   /\ "f1" \notin storage'.datasets]_vars
    /\ CompleteOnlyWhileOpen

\* C34's case: an execution has stored its completed result, published
\* `complete` and closed its stream, after a cancel request that came too
\* late.
C34_Witness ==
    /\ pc["e1"] = "done"
    /\ Completes("e1") = {[error |-> NoError, summary |-> "ai"]}
    /\ storage.results["e1"] = CompletedResult("ai")
    /\ "e1" \in stream_manager.completed_streams
    /\ cancel_sent["e1"] = 1

\* A step in which execute_task_async calls storage.store_result for e: the
\* step that leaves one of the positions in front of a store_result call.
PutStep(e) ==
    /\ pc[e] \in {"store_failed", "store_failed_return", "store_completed"}
    /\ pc'[e] # pc[e]

\* The execution has made its Completed or Failed transition and ended.
EndedWith(e, kind) ==
    /\ pc[e] = "done"
    /\ \E i \in DOMAIN Cached(e) : Cached(e)[i].event = kind

\* C35: the result of an execution is put at most once: a put finds no
\* result stored for the id, so none is ever overwritten, and nothing but a
\* put changes the stored result; an execution that reached Completed or
\* Failed has put its result.
C35_ResultPutOnce ==
    /\ [][\A e \in ExecIds :
             /\ PutStep(e) => /\ storage.results[e] = NoResult
                              /\ storage'.results[e] # NoResult
             /\ storage'.results[e] # storage.results[e] => PutStep(e)]_vars
    /\ [](\A e \in ExecIds :
             /\ EndedWith(e, "complete") => storage.results[e].status = "completed"
             /\ EndedWith(e, "error") => storage.results[e].status = "failed")

\* C35's case: an execution has failed after its auto-fix attempts and
\* ended, with its one result stored.
C35_Witness ==
    /\ EndedWith("e1", "error")
    /\ fix_attempt["e1"] = max_fix_attempts
    /\ storage.results["e1"].status = "failed"

\* The kinds of the events published for e, in order.
Kinds(e) == [i \in DOMAIN Cached(e) |-> Cached(e)[i].event]

\* The kinds of a completed execution with n script runs.
RECURSIVE Repeat(_, _)
Repeat(x, n) == IF n = 0 THEN <<>> ELSE <<x>> \o Repeat(x, n - 1)
FullRun(n) ==
    <<"planning", "code_generation">> \o Repeat("execution", n) \o <<"summary", "complete">>

\* C36: the kinds published for an execution are, in order, a prefix of
\* planning, code_generation, execution, up to two further execution,
\* summary, complete, or a prefix of it without `complete` followed by one
\* `error`.
C36_EventOrder ==
    \A e \in ExecIds :
        \E n \in 1..(1 + max_fix_attempts) :
            \/ IsPrefix(Kinds(e), FullRun(n))
            \/ /\ Kinds(e) # <<>>
               /\ Kinds(e)[Len(Kinds(e))] = "error"
               /\ LET before == SubSeq(Kinds(e), 1, Len(Kinds(e)) - 1) IN
                  /\ IsPrefix(before, FullRun(n))
                  /\ before # FullRun(n)

\* C36's case: an execution has completed after two auto-fix attempts.
C36_Witness ==
    /\ pc["e1"] = "done"
    /\ Kinds("e1") = FullRun(3)

\* The events in a channel's content, the sentinels left out.
NonSentinel(q) == SelectSeq(q, LAMBDA x : x # Sentinel)

\* C37: the events on an execution's live channel are, in order, events of
\* its replay cache; what a step enqueues is what the same step appended to
\* the end of the cache (or only a sentinel), so every event ever enqueued
\* was cached first; the cache is only extended at its end, and the channel
\* only at its end while a subscriber takes from its front.
C37_AppendThenDeliver ==
    /\ [](\A e \in ExecIds : IsSubseq(NonSentinel(stream_manager.queues[e]), Cached(e)))
    /\ [][\A e \in ExecIds :
             LET old == stream_manager.cached_events[e]
                 new == stream_manager'.cached_events[e]
                 q == stream_manager.queues[e]
                 r == stream_manager'.queues[e]
             IN  /\ IsPrefix(old, new)
                 /\ IsPrefix(q, r) \/ (q # <<>> /\ r = Tail(q))
                 /\ IsPrefix(q, r) =>
                       NonSentinel(SubSeq(r, Len(q) + 1, Len(r)))
                          \in {<<>>, SubSeq(new, Len(old) + 1, Len(new))}]_vars

\* C37's case: a subscriber has taken events from the live channel, the
\* execution has published since, and the channel holds the last event
\* published.
C37_Witness ==
    /\ subs["s1"].spc # "idle"
    /\ pc["e1"] = "sleep_complete"
    /\ stream_manager.queues["e1"] # <<>>
    /\ Len(stream_manager.queues["e1"]) < Len(Cached("e1"))
    /\ stream_manager.queues["e1"][Len(stream_manager.queues["e1"])] = LastCached("e1")

\* The terminal sentinels on the live channel of e.
Sentinels(e) ==
    {i \in DOMAIN stream_manager.queues[e] : stream_manager.queues[e][i] = Sentinel}

\* C38 (as stated): closing a stream again, by the orchestrator at its
\* checkpoint after the cancel endpoint's close or the reverse, is without
\* effect: a live channel never holds more than one terminal sentinel.
C38_CloseTwiceOneSentinel ==
    \A e \in ExecIds : Cardinality(Sentinels(e)) <= 1

====
